---------------------------- MODULE Spec2Model ----------------------------
(***************************************************************************)
(* The response cache of the chatbot backend:                              *)
(*   - ThreadSafeResponseCache (scripts/response_cache.py), the in-process *)
(*     LRU + TTL cache, and                                                *)
(*   - DistributedCacheManager (scripts/distributed_cache.py), which puts  *)
(*     that cache (L1) in front of a Redis store (L2).                     *)
(*                                                                         *)
(* Time is the value of time.time(), in seconds.  The clock advances in    *)
(* steps of TickSeconds.  A cache object is a record with the fields of    *)
(* the Python object; every method is an operator from the object (and    *)
(* the clock readings the method makes) to the object it leaves behind.    *)
(***************************************************************************)
EXTENDS Integers, Sequences, FiniteSets, TLC

\* ------------------------------------------------------------------ bounds
\* seconds the clock advances per Tick
TickSeconds == 15
\* number of ticks the clock may advance
MaxTicks == 2
\* largest max_size a cache is constructed with
MaxSizeBound == 2
\* number of calls made on the local cache in one behaviour
MaxSteps == 4
\* number of writer threads of the concurrent-writers scenario
NWriters == 2
\* number of get and set calls made on the manager in one behaviour
MaxCalls == 2
\* number of get and set calls made on the cache when its keys are examined
MaxKeyCalls == 2
\* number of get and set calls made on the cache when its counters are examined
MaxCounterCalls == 3
\* most pieces of other text before and after the body of a model's text
MaxPad == 1
\* most passages asked for (k of run_query)
MaxK == 2
\* most matches the vector index answers with
MaxMatches == 3
\* seconds the clock advances between two calls of the connection manager
LongTick == 200

\* ------------------------------------------------------- program constants
\* self.health_check_interval = 30
health_check_interval == 30
\* score_threshold: float = 0.7 of run_query, in hundredths
score_threshold == 70

\* time.time() when the process starts: the wall clock is far beyond the
\* health check interval, so that time.time() - 0 >= health_check_interval
StartTime == health_check_interval
EndTime == StartTime + MaxTicks * TickSeconds

\* ------------------------------------------------------------------ values
\* Optional[str]: None is <<>>, the string x is <<x>>
None == <<>>
Some(x) == <<x>>

Threads == 1..NWriters

\* ---------------------------------------------------------------- the key
LowerChar(ch) == IF ch = "A" THEN "a" ELSE IF ch = "B" THEN "b" ELSE ch
Lower(str) == [i \in 1..Len(str) |-> LowerChar(str[i])]
IsSpace(ch) == ch \in {" ", "\t", "\n"}

RECURSIVE LStrip(_)
LStrip(str) == IF str # <<>> /\ IsSpace(Head(str)) THEN LStrip(Tail(str)) ELSE str

RECURSIVE RStrip(_)
RStrip(str) ==
    IF str # <<>> /\ IsSpace(str[Len(str)])
    THEN RStrip(SubSeq(str, 1, Len(str) - 1))
    ELSE str

StripLeft(str) == LStrip(str)
Strip(str) == RStrip(LStrip(str))

L1KeyEmptyIsAbsent(question, category, section) ==
    << "md5", Strip(Lower(question)),
       IF category = Some("") THEN None ELSE category,
       IF section = Some("") THEN None ELSE section >>

\* ThreadSafeResponseCache._generate_cache_key: the MD5 digest of the JSON
\* text of {question: lower+strip, category, section}.  The digest is
\* modelled by the triple it is computed from (no collisions).
L1Key(question, category, section) ==
    << "md5", Strip(Lower(question)), category, section >>

\* ------------------------------------------------------- sequence helpers
Range(seq) == { seq[i] : i \in 1..Len(seq) }
KeysOf(seq) == { seq[i].key : i \in 1..Len(seq) }
HasKey(seq, k) == \E i \in 1..Len(seq) : seq[i].key = k
IndexOf(seq, k) == CHOOSE i \in 1..Len(seq) : seq[i].key = k
Lookup(seq, k) == seq[IndexOf(seq, k)]
RemoveKeys(seq, ks) == SelectSeq(seq, LAMBDA e : e.key \notin ks)
\* d[k] = v of a dict that keeps insertion order: in place when k is there
PutKey(seq, item) ==
    IF HasKey(seq, item.key)
    THEN [seq EXCEPT ![IndexOf(seq, item.key)] = item]
    ELSE Append(seq, item)

\* ------------------------------------------------ ThreadSafeResponseCache
\* __init__
NewCache(max_size, ttl_seconds) ==
    [ max_size |-> max_size,
      ttl_seconds |-> ttl_seconds,
      cache |-> <<>>,
      access_times |-> <<>>,
      stats |-> [ hits |-> 0, misses |-> 0, evictions |-> 0,
                  expired_removals |-> 0, total_requests |-> 0 ] ]

\* _is_expired with the operands of the subtraction swapped
IsExpiredSwapped(obj, entry, t) == entry.created_at - t > obj.ttl_seconds
\* _is_expired, with t the value time.time() returns in it
IsExpired(obj, entry, t) == t - entry.created_at > obj.ttl_seconds

\* _evict_expired that finds no entry expired
EvictExpiredNothing(obj, t) == obj

\* _evict_expired, with t the value of current_time in it
EvictExpired(obj, t) ==
    LET expired_keys ==
            { e.key : e \in { x \in Range(obj.cache) :
                                t - x.created_at > obj.ttl_seconds } }
    IN  [ obj EXCEPT
            !.cache = RemoveKeys(obj.cache, expired_keys),
            !.access_times = RemoveKeys(obj.access_times, expired_keys),
            !.stats.expired_removals = @ + Cardinality(expired_keys) ]

\* sorted(self.access_times.items(), key=lambda x: x[1]): a stable sort,
\* items of equal time stay in the dict's order
RECURSIVE SortByTime(_)
SortByTime(seq) ==
    IF seq = <<>> THEN <<>>
    ELSE LET i == CHOOSE i \in 1..Len(seq) :
                    /\ \A j \in 1..Len(seq) : seq[i].t <= seq[j].t
                    /\ \A j \in 1..(i - 1) : seq[j].t > seq[i].t
         IN  <<seq[i]>> \o SortByTime(SubSeq(seq, 1, i - 1) \o SubSeq(seq, i + 1, Len(seq)))

\* sorted_keys[:count]
Take(seq, count) ==
    IF count >= 0
    THEN SubSeq(seq, 1, IF count < Len(seq) THEN count ELSE Len(seq))
    ELSE SubSeq(seq, 1, IF Len(seq) + count > 0 THEN Len(seq) + count ELSE 0)

\* the loop of _evict_lru over the chosen keys
RECURSIVE EvictKeys(_, _)
EvictKeys(obj, victims) ==
    IF victims = <<>> THEN obj
    ELSE LET k == Head(victims).key
             after == IF HasKey(obj.cache, k)
                      THEN [ obj EXCEPT
                               !.cache = RemoveKeys(obj.cache, {k}),
                               !.access_times = RemoveKeys(obj.access_times, {k}),
                               !.stats.evictions = @ + 1 ]
                      ELSE obj
         IN  EvictKeys(after, Tail(victims))

\* _evict_lru
EvictLru(obj, count) == EvictKeys(obj, Take(SortByTime(obj.access_times), count))

\* what get returns: None, or the tuple (answer, is_fallback)
Absent == [found |-> FALSE, answer |-> 0, is_fallback |-> FALSE]
Found(answer, is_fallback) ==
    [found |-> TRUE, answer |-> answer, is_fallback |-> is_fallback]

\* get: the value returned; t1 is time.time() in _is_expired
GetValue(obj, question, category, section, t1) ==
    LET k == L1Key(question, category, section)
    IN  IF ~HasKey(obj.cache, k) THEN Absent
        ELSE LET e == Lookup(obj.cache, k)
             IN  IF IsExpired(obj, e, t1) THEN Absent
                 ELSE Found(e.answer, e.is_fallback)

\* get that removes an expired entry without counting the removal
GetObjExpiryUncounted(obj, question, category, section, t1, t2) ==
    LET k == L1Key(question, category, section)
        counted == [obj EXCEPT !.stats.total_requests = @ + 1]
    IN  IF ~HasKey(obj.cache, k)
        THEN [counted EXCEPT !.stats.misses = @ + 1]
        ELSE LET e == Lookup(obj.cache, k)
             IN  IF IsExpired(obj, e, t1)
                 THEN [counted EXCEPT
                         !.cache = RemoveKeys(obj.cache, {k}),
                         !.access_times = RemoveKeys(obj.access_times, {k}),
                         !.stats.misses = @ + 1]
                 ELSE [counted EXCEPT
                         !.access_times = PutKey(obj.access_times, [key |-> k, t |-> t2]),
                         !.cache = Append(RemoveKeys(obj.cache, {k}), e),
                         !.stats.hits = @ + 1]

\* get that drops an expired entry from the map and leaves its access time
GetObjKeepsAccessTime(obj, question, category, section, t1, t2) ==
    LET k == L1Key(question, category, section)
        counted == [obj EXCEPT !.stats.total_requests = @ + 1]
    IN  IF ~HasKey(obj.cache, k)
        THEN [counted EXCEPT !.stats.misses = @ + 1]
        ELSE LET e == Lookup(obj.cache, k)
             IN  IF IsExpired(obj, e, t1)
                 THEN [counted EXCEPT
                         !.cache = RemoveKeys(obj.cache, {k}),
                         !.stats.misses = @ + 1,
                         !.stats.expired_removals = @ + 1]
                 ELSE [counted EXCEPT
                         !.access_times = PutKey(obj.access_times, [key |-> k, t |-> t2]),
                         !.cache = Append(RemoveKeys(obj.cache, {k}), e),
                         !.stats.hits = @ + 1]
\* get: the object it leaves; t2 is time.time() at the access-time update
GetObj(obj, question, category, section, t1, t2) ==
    LET k == L1Key(question, category, section)
        counted == [obj EXCEPT !.stats.total_requests = @ + 1]
    IN  IF ~HasKey(obj.cache, k)
        THEN [counted EXCEPT !.stats.misses = @ + 1]
        ELSE LET e == Lookup(obj.cache, k)
             IN  IF IsExpired(obj, e, t1)
                 THEN [counted EXCEPT
                         !.cache = RemoveKeys(obj.cache, {k}),
                         !.access_times = RemoveKeys(obj.access_times, {k}),
                         !.stats.misses = @ + 1,
                         !.stats.expired_removals = @ + 1]
                 ELSE [counted EXCEPT
                         !.access_times = PutKey(obj.access_times, [key |-> k, t |-> t2]),
                         \* move_to_end
                         !.cache = Append(RemoveKeys(obj.cache, {k}), e),
                         !.stats.hits = @ + 1]

\* set that keeps the is_fallback flag of the entry it overwrites
SetObjKeepsFlag(obj, question, answer, is_fallback, category, section, t1, t2) ==
    LET k == L1Key(question, category, section)
        swept == EvictExpired(obj, t2)
        room == IF Len(swept.cache) >= swept.max_size /\ ~HasKey(swept.cache, k)
                THEN EvictLru(swept, 1) ELSE swept
        entry == [ key |-> k, answer |-> answer,
                   is_fallback |-> IF HasKey(room.cache, k)
                                   THEN Lookup(room.cache, k).is_fallback
                                   ELSE is_fallback,
                   created_at |-> t1, question |-> question,
                   category |-> category, section |-> section,
                   access_count |-> IF HasKey(room.cache, k)
                                    THEN Lookup(room.cache, k).access_count + 1
                                    ELSE 1 ]
    IN  [ room EXCEPT
            !.cache = PutKey(room.cache, entry),
            !.access_times = PutKey(room.access_times, [key |-> k, t |-> t1]) ]

\* set that makes room whenever the cache is full, for a stored key too
SetObjEvictsWhenFull(obj, question, answer, is_fallback, category, section, t1, t2) ==
    LET k == L1Key(question, category, section)
        swept == EvictExpired(obj, t2)
        room == IF Len(swept.cache) >= swept.max_size
                THEN EvictLru(swept, 1) ELSE swept
        entry == [ key |-> k, answer |-> answer, is_fallback |-> is_fallback,
                   created_at |-> t1, question |-> question,
                   category |-> category, section |-> section,
                   access_count |-> IF HasKey(room.cache, k)
                                    THEN Lookup(room.cache, k).access_count + 1
                                    ELSE 1 ]
    IN  [ room EXCEPT
            !.cache = PutKey(room.cache, entry),
            !.access_times = PutKey(room.access_times, [key |-> k, t |-> t1]) ]
\* set that makes room for a new key whether or not the cache is full
SetObjNoRoomCheck(obj, question, answer, is_fallback, category, section, t1, t2) ==
    LET k == L1Key(question, category, section)
        swept == EvictExpired(obj, t2)
        room == IF ~HasKey(swept.cache, k) THEN EvictLru(swept, 1) ELSE swept
        entry == [ key |-> k, answer |-> answer, is_fallback |-> is_fallback,
                   created_at |-> t1, question |-> question,
                   category |-> category, section |-> section,
                   access_count |-> IF HasKey(room.cache, k)
                                    THEN Lookup(room.cache, k).access_count + 1
                                    ELSE 1 ]
    IN  [ room EXCEPT
            !.cache = PutKey(room.cache, entry),
            !.access_times = PutKey(room.access_times, [key |-> k, t |-> t1]) ]

\* set: t1 is current_time (line 185), t2 is time.time() in _evict_expired
SetObj(obj, question, answer, is_fallback, category, section, t1, t2) ==
    LET k == L1Key(question, category, section)
        swept == EvictExpired(obj, t2)
        room == IF Len(swept.cache) >= swept.max_size /\ ~HasKey(swept.cache, k)
                THEN EvictLru(swept, 1) ELSE swept
        entry == [ key |-> k, answer |-> answer, is_fallback |-> is_fallback,
                   created_at |-> t1, question |-> question,
                   category |-> category, section |-> section,
                   access_count |-> IF HasKey(room.cache, k)
                                    THEN Lookup(room.cache, k).access_count + 1
                                    ELSE 1 ]
    IN  [ room EXCEPT
            !.cache = PutKey(room.cache, entry),
            !.access_times = PutKey(room.access_times, [key |-> k, t |-> t1]) ]

\* clear that also zeroes the counters
ClearObjAndStats(obj) ==
    [obj EXCEPT !.cache = <<>>, !.access_times = <<>>,
                !.stats = [f \in DOMAIN obj.stats |-> 0]]
\* clear
ClearObj(obj) == [obj EXCEPT !.cache = <<>>, !.access_times = <<>>]

\* int(x * 0.2) for an integer x: truncation towards zero
IntFifth(x) == IF x >= 0 THEN x \div 5 ELSE -((-x) \div 5)

\* cleanup, with t the value time.time() returns in _evict_expired
CleanupObj(obj, t) ==
    LET swept == EvictExpired(obj, t)
    IN  \* len(self.cache) > self.max_size * 0.8
        IF 5 * Len(swept.cache) > 4 * swept.max_size
        THEN EvictLru(swept, IntFifth(swept.max_size))
        ELSE swept

\* ------------------------------------ DistributedCacheManager, the object
\* The manager's fields; redis_client is whether the attribute is set (it is
\* None until initialize creates it), avg_response_time is left out.
NewManager(compression_enabled, l2_ttl_seconds) ==
    [ compression_enabled |-> compression_enabled,
      l2_ttl_seconds |-> l2_ttl_seconds,
      redis_client |-> FALSE,
      initialized |-> FALSE,
      stats |-> [ l1_hits |-> 0, l2_hits |-> 0, misses |-> 0, errors |-> 0,
                  total_requests |-> 0 ],
      redis_healthy |-> FALSE,
      last_health_check |-> 0 ]

\* self.stats[field] += 1
Bump(m, field) == [m EXCEPT !.stats[field] = @ + 1]

\* "chat_cache:" + sha256(json.dumps(...))[:16] of the normalized question and
\* the filters, taken as injective
L2Key(question, category, section) ==
    << "chat_cache", Strip(Lower(question)), category, section >>

\* What a Redis key holds: nothing, or bytes of one of four kinds,
\*   "zlib_json"  zlib.compress of the JSON text of an answer
\*   "raw_json"   the JSON text of an answer, utf-8 encoded
\*   "raw_text"   utf-8 text that is no JSON object with the two fields
\*   "binary"     bytes that are neither a zlib stream nor utf-8
\* and the time at which Redis drops the key (setex).
NoData == [ kind |-> "none", answer |-> 0, is_fallback |-> FALSE, expires_at |-> 0 ]
Payload(kind, v, expires_at) ==
    [ kind |-> kind, answer |-> v.answer, is_fallback |-> v.is_fallback,
      expires_at |-> expires_at ]

\* _compress_data(json.dumps(cache_data)): the kind of bytes it produces
CompressData(m) == IF m.compression_enabled THEN "zlib_json" ELSE "raw_json"

\* _decompress_data(data): the text it returns, or that it raises.  Without
\* compression it decodes the bytes as utf-8, which a zlib stream (it starts
\* 0x78 0x9c) is not; with compression, bytes that are no zlib stream are
\* decoded as utf-8 by the bare except.
DecompressData(m, data) ==
    IF ~m.compression_enabled
    THEN IF data.kind \in { "raw_json", "raw_text" }
         THEN [ raised |-> FALSE, text |-> data.kind ]
         ELSE [ raised |-> TRUE, text |-> "none" ]
    ELSE IF data.kind = "zlib_json"
         THEN [ raised |-> FALSE, text |-> "raw_json" ]
         ELSE IF data.kind \in { "raw_json", "raw_text" }
              THEN [ raised |-> FALSE, text |-> data.kind ]
              ELSE [ raised |-> TRUE, text |-> "none" ]

\* json.loads(decompressed) and the two subscripts: whether one of them raises
JsonLoadsRaises(text) == text # "raw_json"

\* whether get's try block decodes the bytes it read into an answer
Decodable(m, data) ==
    /\ ~DecompressData(m, data).raised
    /\ ~JsonLoadsRaises(DecompressData(m, data).text)

\* what Redis answers to GET key at time t
RedisGet(r, key, t) ==
    IF r.data[key].kind # "none" /\ t < r.data[key].expires_at
    THEN r.data[key] ELSE NoData

\* _check_redis_health up to its await, with t the value of time.time(): the
\* answer it returns at once, or that it goes on to ping
\* a health check that is never due
HealthCheckNeverDue(m, t) == FALSE
HealthCheckAlwaysDue(m, t) == TRUE
HealthCheckDue(m, t) == ~(t - m.last_health_check < health_check_interval)
CheckTrustsNoFlag(m, t) ==
    IF ~HealthCheckDue(m, t)
    THEN [ mgr |-> m, answer |-> "healthy" ]
    ELSE IF ~m.redis_client
         THEN [ mgr |-> [m EXCEPT !.last_health_check = t, !.redis_healthy = FALSE],
                answer |-> "unhealthy" ]
         ELSE [ mgr |-> [m EXCEPT !.last_health_check = t], answer |-> "ping" ]
CheckRedisHealth(m, t) ==
    IF ~HealthCheckDue(m, t)
    THEN [ mgr |-> m,
           answer |-> IF m.redis_healthy THEN "healthy" ELSE "unhealthy" ]
    ELSE IF ~m.redis_client
         THEN [ mgr |-> [m EXCEPT !.last_health_check = t, !.redis_healthy = FALSE],
                answer |-> "unhealthy" ]
         ELSE [ mgr |-> [m EXCEPT !.last_health_check = t], answer |-> "ping" ]

\* get's `if l1_result:` - a tuple of two is true
L1HitNever(value) == FALSE
L1Hit(value) == value.found

\* get's self.l1_cache.set(question, answer, is_fallback, category, section)
\* of an answer read from Redis
PromoteNothing(obj, r, data, t1, t2) == obj
Promote(obj, r, data, t1, t2) ==
    SetObj(obj, r.question, data.answer, data.is_fallback, r.category,
           r.section, t1, t2)

\* get's two except clauses and the fall through to the miss
\* a failed read that counts the error and no miss
ReadFailedNoMiss(m) == Bump(m, "errors")
ReadFailedUncounted(m) == Bump(m, "misses")
ReadFailed(m) == Bump(Bump(m, "errors"), "misses")

\* what set returns once its Redis write has raised: the except clauses fall
\* through to `return True`
SetResultFails(outcome) == outcome = "ok"
SetResult(outcome) == TRUE

\* ------------------------------------------------------------------- state
VARIABLES
    l1_cache,   \* the ThreadSafeResponseCache object (alone, or the manager's L1)
    now,        \* time.time()
    steps,      \* number of calls made so far
    ret,        \* the last call that returned: its arguments and its result
    pc,         \* where each thread / task is
    arg,        \* the arguments of each thread's / task's call
    order,      \* the threads in the order their set took the cache's lock
    mgr,        \* the DistributedCacheManager object, its L1 apart
    redis,      \* the Redis server: whether it answers, and what it stores
    waited,     \* whether the clock moved while a task's Redis command is out
    request,    \* the request of the pipeline: entry point, k, the index's matches
    stage,      \* where the request is in run_query and its caller
    search_results,   \* what similarity_search_with_metadata returned
    content,          \* response.content, the text the language model produced
    original_answer,  \* the answer run_query returned
    is_fallback,      \* the flag run_query returned
    is_fallback_like, \* is_fallback_like_response(original_answer)
    displayed_answer, \* the answer shown to the user
    branch,           \* the arm of the caller's if / elif / else that ran
    alerts,           \* the calls of SlackAlertManager.send_fallback_alert
    sheet_rows,       \* the calls of log_fallback_to_sheet and log_to_sheet
    llm_calls,        \* the number of chain.invoke calls
    connection_manager, \* the ConnectionManager class and its instance
    _distributed_cache  \* the module's global: the manager made, initialize()'s calls

localVars == << l1_cache, now, steps, ret >>
threadVars == << pc, arg, order >>
orchVars == << mgr, redis, waited >>
cacheVars == << l1_cache, now, steps, ret, pc, arg, order, mgr, redis, waited >>
pipeVars == << request, stage, search_results, content, original_answer, is_fallback,
              is_fallback_like, displayed_answer, branch, alerts, sheet_rows, llm_calls >>
connVars == << connection_manager, _distributed_cache >>
vars == << cacheVars, pipeVars, connVars >>
\* what the calls of ConnectionManager leave alone
restVars == << l1_cache, order, mgr, redis, waited, pipeVars, _distributed_cache >>

\* ------------------------------------------------------ ConnectionManager
\* the services whose handles the manager keeps
Services == { "openai_llm", "openai_embeddings", "pinecone_client", "vector_searcher" }
\* self._health_check_interval = timedelta(minutes=5), in seconds
cm_health_check_interval == 300

\* the attributes __init__ assigns: the four handles (None, or an object),
\* _connection_status (a dict; a service without an item is "absent") and
\* _last_health_check (a dict; 0 is no item)
NoAttrs ==
    [ assigned |-> FALSE,
      handles |-> [s \in Services |-> FALSE],
      connection_status |-> [s \in Services |-> "absent"],
      last_health_check |-> [s \in Services |-> 0] ]
InitAttrs == [NoAttrs EXCEPT !.assigned = TRUE]

\* the class when the module is loaded: _instance = None, _lock free,
\* _initialized = False; objects counts the objects __new__ has created
ClassLoaded ==
    [ instance |-> 0, initialized |-> FALSE, lock |-> 0, objects |-> 0,
      attrs |-> NoAttrs ]
\* the class after the first ConnectionManager() has returned
Constructed ==
    [ instance |-> 1, initialized |-> TRUE, lock |-> 0, objects |-> 1,
      attrs |-> InitAttrs ]

\* _distributed_cache: Optional[DistributedCacheManager] = None
\* created: whether the global is set; constructed and initialize_calls: the
\* DistributedCacheManager objects made and the calls of initialize()
NoInstance == [ created |-> FALSE, constructed |-> 0, initialize_calls |-> 0 ]

NoConnections ==
    /\ connection_manager = ClassLoaded
    /\ _distributed_cache = NoInstance

\* __new__'s `cls._instance is None` that is true whatever _instance is
InstanceAlwaysMissing(cm) == TRUE
\* __new__'s `cls._instance is None`
InstanceMissing(cm) == cm.instance = 0

\* _update_connection_status: an item assignment, which raises TypeError
\* when _connection_status is None
UpdateConnectionStatus(attrs, service, status) ==
    IF attrs.connection_status = None
    THEN [ attrs |-> attrs, raised |-> TRUE ]
    ELSE [ attrs |-> [attrs EXCEPT !.connection_status[service] = status],
           raised |-> FALSE ]

\* the property of a service: the handle is made on first use; outcome is
\* whether the constructor of the client returns ("ok") or raises ("error")
GetService(attrs, service, outcome) ==
    IF attrs.handles[service]
    THEN [ attrs |-> attrs, raised |-> FALSE ]
    ELSE IF outcome = "ok"
         THEN UpdateConnectionStatus([attrs EXCEPT !.handles[service] = TRUE],
                                     service, "connected")
         ELSE [ attrs |-> UpdateConnectionStatus(attrs, service, "error").attrs,
                raised |-> TRUE ]

\* hasattr(self, "_" + name): the handles, and every other attribute and
\* method of the object and its class whose name begins with an underscore
UnderscoreNames ==
    { "connection_status", "last_health_check", "health_check_interval", "lock",
      "instance", "initialized", "update_connection_status", "should_check_health" }
HasAttr(name) == name \in Services \cup UnderscoreNames
\* the names reset_connection is called with: the services, one name the
\* object has no attribute for and one it has
ResetNames == Services \cup { "invalid_service", "connection_status" }
\* setattr(self, "_" + name, None), for the names of ResetNames
SetAttrNone(attrs, name) ==
    IF name \in Services THEN [attrs EXCEPT !.handles[name] = FALSE]
    ELSE IF name = "connection_status" THEN [attrs EXCEPT !.connection_status = None]
    ELSE attrs
\* reset_connection
ResetConnectionObj(attrs, name) ==
    IF HasAttr(name)
    THEN [ attrs |-> SetAttrNone(attrs, name), result |-> TRUE ]
    ELSE [ attrs |-> attrs, result |-> FALSE ]

\* _should_check_health, with t the value of datetime.now()
ShouldCheckHealth(attrs, service, t) ==
    \/ attrs.last_health_check[service] = 0
    \/ t - attrs.last_health_check[service] > cm_health_check_interval
\* health_check: the status it reports for a service; reading an item of
\* _connection_status raises when that is None, and the except of the loop
\* reports "error"
HealthStatus(attrs, service, t) ==
    IF attrs.connection_status = None THEN "error"
    ELSE IF ShouldCheckHealth(attrs, service, t)
         THEN IF attrs.handles[service] THEN "healthy" ELSE "not_initialized"
         ELSE IF attrs.connection_status[service] = "absent" THEN "unknown"
              ELSE attrs.connection_status[service]
\* health_check: the object after it
HealthCheckObj(attrs, t) ==
    [attrs EXCEPT !.last_health_check =
        [s \in Services |-> IF ShouldCheckHealth(attrs, s, t) THEN t ELSE @[s]]]

\* ------------------------------------------------- the answering pipeline
\* Texts are sequences of pieces of text; a piece is never split, so a
\* phrase occurs in a text when its pieces occur there one after the other.

\* answer_guard.FALLBACK_INDICATORS, in the order of the list
FALLBACK_INDICATORS ==
    << << "accurate guidance ", "is difficult" >>,
       << "detailed information ", "there is none" >>,
       << "clear ", "it is not" >>,
       << "that information provided ", "it is not" >>,
       << "stated ", "it is not" >>,
       << "in the document ", "can confirm ", "there is none" >>,
       << "the document that information ", "there is none" >>,
       << "the policy stated content ", "there is none" >>,
       << "the time exactly ", "stated ", "it is not" >>,
       << "the document clear time information ", "there is none" >>,
       << "the exact time ", "can confirm ", "there is none" >> >>

\* the list fallback_keywords of is_fallback_response
fallback_keywords ==
    << << "accurate guidance ", "is difficult" >>,
       << "in the document ", "can find ", "there is none" >>,
       << "can confirm ", "there is none" >>,
       << "can know ", "there is none" >>,
       << "can provide ", "there is none" >>,
       << "call 02-1234-5678" >> >>

FALLBACK_MESSAGE ==
    << "sorry, about that right now ", "accurate guidance ", "is difficult, so\n",
       "call 02-1234-5678", " and we can help faster." >>

\* the literal of chat_with_bot, the same text
ChatFallbackMessage ==
    << "sorry, about that right now ", "accurate guidance ", "is difficult, so\n",
       "call 02-1234-5678", " and we can help faster." >>

InAtStart(phrase, text) ==
    Len(phrase) <= Len(text) /\ SubSeq(text, 1, Len(phrase)) = phrase

\* `phrase in text` of two str: the search from offset i on
RECURSIVE FoundFrom(_, _, _)
FoundFrom(text, phrase, i) ==
    IF i + Len(phrase) > Len(text) THEN FALSE
    ELSE IF SubSeq(text, i + 1, i + Len(phrase)) = phrase THEN TRUE
    ELSE FoundFrom(text, phrase, i + 1)

In(phrase, text) == FoundFrom(text, phrase, 0)

\* any(phrase in text for phrase in phrases), from the i-th phrase on: the
\* first phrase found ends the iteration
RECURSIVE AnyIn(_, _, _)
AnyIn(phrases, text, i) ==
    IF i > Len(phrases) THEN FALSE
    ELSE IF In(phrases[i], text) THEN TRUE
    ELSE AnyIn(phrases, text, i + 1)

is_fallback_like_response(answer) == AnyIn(FALLBACK_INDICATORS, answer, 1)
is_fallback_response(response) == AnyIn(fallback_keywords, response, 1)

\* ---- the texts a language model may produce
Filler == "check-in is from 5 pm."
RECURSIVE Repeat(_, _)
Repeat(piece, n) == IF n = 0 THEN <<>> ELSE << piece >> \o Repeat(piece, n - 1)
Pads == { Repeat(Filler, n) : n \in 0..MaxPad }

Bodies ==
    Range(FALLBACK_INDICATORS) \cup Range(fallback_keywords) \cup
    { FALLBACK_MESSAGE,
      <<>>,
      << "sorry. about that ", "accurate guidance ", "is difficult", "." >>,
      << "that information provided ", "and is not, ", "in the document too ",
         "can confirm ", "there is none", "." >>,
      << "the document clear time information ", "lacking, ", "accurate guidance ",
         "is difficult", "." >>,
      << "accurate guidance " >>,
      << "is difficult" >>,
      << "it is not" >>,
      << "can confirm " >>,
      << "there is none" >>,
      << "stated ", "there is none" >>,
      << "can confirm ", "it is not" >> }

Texts == { p \o b \o s : p \in Pads, b \in Bodies, s \in Pads }

\* ---- retrieval
\* scores in hundredths; the default score_threshold of run_query is 0.7
Scores == { score_threshold - 1, score_threshold, score_threshold + 1 }
Ks == 1..MaxK

\* the matches index.query(top_k = k * 2) can answer with, by their scores
MatchLists(k) ==
    UNION { [1..n -> Scores] : n \in 0..(IF 2 * k < MaxMatches THEN 2 * k ELSE MaxMatches) }

ScoreAbove(score, threshold) == score > threshold
\* the test of the loop over search_results.matches
ScoreCounts(score, threshold) == score >= threshold

\* similarity_search_with_metadata after index.query answered with matches
FilteredResults(matches, k, threshold) ==
    Take(SelectSeq(matches, LAMBDA score : ScoreCounts(score, threshold)), k)

ResultsAlways(results) == FALSE
\* `if not search_results:` of run_query
NoResults(results) == results = <<>>

AnswerAlwaysFixed(fallback, text) == FALLBACK_MESSAGE
\* the answer run_query returns once the model has answered with text
RunQueryAnswer(fallback, text) == IF fallback THEN FALLBACK_MESSAGE ELSE text

\* the answer displayed by process_query and by chat_with_bot
DisplayedAnswer(entry, fallback, answer) ==
    IF fallback
    THEN (IF entry = "chat_with_bot" THEN ChatFallbackMessage ELSE FALLBACK_MESSAGE)
    ELSE answer

BranchIgnoresLike(fallback, fallback_like) ==
    IF fallback THEN "fallback" ELSE "normal"
\* the arm of if is_fallback / elif is_fallback_like / else that is taken
Branch(fallback, fallback_like) ==
    IF fallback THEN "fallback"
    ELSE IF fallback_like THEN "fallback-like"
    ELSE "normal"

\* the fallback_type log_fallback_to_sheet is called with in an arm
SheetType(arm) == IF arm = "fallback" THEN "LOW_SIMILARITY" ELSE "FALLBACK_LIKE"

EntryPoints == { "process_query", "chat_with_bot" }
NoText == << "no text" >>

NoRequest ==
    /\ request = [ entry |-> "none", k |-> 0, matches |-> <<>> ]
    /\ stage = "none"
    /\ search_results = <<>>
    /\ content = NoText
    /\ original_answer = NoText
    /\ is_fallback = FALSE
    /\ is_fallback_like = FALSE
    /\ displayed_answer = NoText
    /\ branch = "none"
    /\ alerts = <<>>
    /\ sheet_rows = <<>>
    /\ llm_calls = 0

\* the (question, category, section) of the calls: three keys, one of them
\* spelled in two ways
Requests ==
    { [ question |-> <<"a">>, category |-> None, section |-> None ],
      [ question |-> <<"A", " ">>, category |-> None, section |-> None ],
      [ question |-> <<"b">>, category |-> None, section |-> None ],
      [ question |-> <<"b">>, category |-> Some("c"), section |-> None ] }
\* the (answer, is_fallback) of the calls; the answer texts are numbered
ValueOf(n) == [ answer |-> n, is_fallback |-> (n % 2 = 0) ]
Values == { ValueOf(1), ValueOf(2) }
Calls ==
    { [ question |-> r.question, category |-> r.category, section |-> r.section,
        answer |-> v.answer, is_fallback |-> v.is_fallback ] :
      r \in Requests, v \in Values }

NoCall == [ question |-> <<>>, category |-> None, section |-> None,
            answer |-> 0, is_fallback |-> FALSE ]
NoRet == [ op |-> "none", question |-> <<>>, category |-> None, section |-> None,
           t |-> 0, found |-> FALSE, answer |-> 0, is_fallback |-> FALSE,
           ok |-> TRUE, raised |-> FALSE ]

RetOf(op, r, t, value, ok) ==
    [ op |-> op, question |-> r.question, category |-> r.category,
      section |-> r.section, t |-> t, found |-> value.found,
      answer |-> value.answer, is_fallback |-> value.is_fallback, ok |-> ok,
      raised |-> FALSE ]

\* the call ended with an exception that reached its caller
Raised(r) == [r EXCEPT !.raised = TRUE]

KeyOfCall(r) == L1Key(r.question, r.category, r.section)

\* the values a second reading of the clock within one call can give
ClockReads(t) == {t} \cup (IF t + TickSeconds <= EndTime THEN {t + TickSeconds} ELSE {})

\* ttl_hours * 3600 of a valid configuration, in seconds
TtlChoices == { 0, TickSeconds }
\* a ttl no entry outlives within the clock's range
LongTtl == MaxTicks * TickSeconds

\* the question asked of the manager: one key
OrchRequests == { r \in Requests : r.category = None /\ r.question = <<"a">> }
OrchKeys == { L2Key(r.question, r.category, r.section) : r \in OrchRequests }

\* the cache used alone: no manager, no Redis
NoManager ==
    /\ mgr = NewManager(TRUE, 0)
    /\ redis = [ data |-> [k \in OrchKeys |-> NoData] ]
    /\ waited = [t \in Threads |-> FALSE]

\* ------------------------------------------- the local cache, any caller
\* Every public method runs as a whole under self.lock (an RLock), so calls
\* of different threads are serialized: one action is one call.

Init ==
    /\ \E m \in 1..MaxSizeBound, ttl \in TtlChoices : l1_cache = NewCache(m, ttl)
    /\ now = StartTime
    /\ steps = 0
    /\ ret = NoRet
    /\ pc = [t \in Threads |-> "idle"]
    /\ arg = [t \in Threads |-> NoCall]
    /\ order = <<>>
    /\ NoManager
    /\ NoRequest
    /\ NoConnections

\* time passes between two calls
Tick ==
    /\ now + TickSeconds <= EndTime
    /\ now' = now + TickSeconds
    /\ UNCHANGED << l1_cache, steps, ret, pc, arg, order, orchVars, pipeVars, connVars >>

\* cache.get(question, category, section)
Get(r) ==
    /\ steps < MaxSteps
    /\ \E t2 \in ClockReads(now) :
         LET value == GetValue(l1_cache, r.question, r.category, r.section, now)
         IN  /\ l1_cache' = GetObj(l1_cache, r.question, r.category, r.section, now, t2)
             /\ now' = IF value.found THEN t2 ELSE now
             /\ ret' = RetOf("get", r, now, value, TRUE)
    /\ steps' = steps + 1
    /\ UNCHANGED << threadVars, orchVars, pipeVars, connVars >>

\* cache.set(question, answer, is_fallback, category, section)
Set(c) ==
    /\ steps < MaxSteps
    /\ \E t2 \in ClockReads(now) :
         /\ l1_cache' = SetObj(l1_cache, c.question, c.answer, c.is_fallback,
                               c.category, c.section, now, t2)
         /\ now' = t2
    /\ ret' = RetOf("set", c, now, Found(c.answer, c.is_fallback), TRUE)
    /\ steps' = steps + 1
    /\ UNCHANGED << threadVars, orchVars, pipeVars, connVars >>

\* cache.clear()
Clear ==
    /\ steps < MaxSteps
    /\ l1_cache' = ClearObj(l1_cache)
    /\ ret' = RetOf("clear", NoCall, now, Absent, TRUE)
    /\ steps' = steps + 1
    /\ UNCHANGED << now, pc, arg, order, orchVars, pipeVars, connVars >>

\* cache.cleanup()
Cleanup ==
    /\ steps < MaxSteps
    /\ l1_cache' = CleanupObj(l1_cache, now)
    /\ ret' = RetOf("cleanup", NoCall, now, Absent, TRUE)
    /\ steps' = steps + 1
    /\ UNCHANGED << now, pc, arg, order, orchVars, pipeVars, connVars >>

Next ==
    \/ Tick
    \/ \E r \in Requests : Get(r)
    \/ \E c \in Calls : Set(c)
    \/ Clear
    \/ Cleanup

Spec == Init /\ [][Next]_vars

\* ---------------------------- the local cache under any configuration
\* ThreadSafeResponseCache.__init__ stores max_size and ttl_hours as given:
\* every integer is a configuration the constructor accepts.
InitAnyConfig ==
    /\ \E m \in (-1)..MaxSizeBound, ttl \in TtlChoices \cup { -TickSeconds } :
         l1_cache = NewCache(m, ttl)
    /\ now = StartTime
    /\ steps = 0
    /\ ret = NoRet
    /\ pc = [t \in Threads |-> "idle"]
    /\ arg = [t \in Threads |-> NoCall]
    /\ order = <<>>
    /\ NoManager
    /\ NoRequest
    /\ NoConnections

SpecAnyConfig == InitAnyConfig /\ [][Next]_vars

\* ------------------------------------------- concurrent writers of one cache
\* NWriters threads share one cache; thread t calls set once, with the
\* arguments arg[t], and then get with the same question.  The cache the
\* threads find was filled by earlier calls of set.

CallOf(r, v) ==
    [ question |-> r.question, category |-> r.category, section |-> r.section,
      answer |-> v.answer, is_fallback |-> v.is_fallback ]

\* the earlier calls, in their order: other and same keys, an answer no
\* writer passes
PrefillOrder ==
    << CallOf([ question |-> <<"b">>, category |-> None, section |-> None ],
              [ answer |-> 0, is_fallback |-> FALSE ]),
       CallOf([ question |-> <<"b">>, category |-> Some("c"), section |-> None ],
              [ answer |-> 0, is_fallback |-> FALSE ]) >>

\* the questions the writers ask: one spelling of each key
WriterRequests == { r \in Requests : r.question \in { <<"a">>, <<"b">> } }

\* the cache after the first n of the earlier calls
RECURSIVE Prefilled(_, _)
Prefilled(obj, n) ==
    IF n = 0 THEN obj
    ELSE LET c == PrefillOrder[n]
         IN  SetObj(Prefilled(obj, n - 1), c.question, c.answer, c.is_fallback,
                    c.category, c.section, StartTime, StartTime)

AllDone == \A t \in Threads : pc[t] \in {"done", "checked"}

InitWriters ==
    /\ \E m \in 1..MaxSizeBound, ttl \in { TickSeconds, LongTtl },
          n \in 0..Len(PrefillOrder) :
         l1_cache = Prefilled(NewCache(m, ttl), n)
    /\ now = StartTime
    /\ steps = 0
    /\ ret = NoRet
    /\ pc = [t \in Threads |-> "ready"]
    /\ \E rs \in [Threads -> WriterRequests] : arg = [t \in Threads |-> CallOf(rs[t], ValueOf(t))]
    /\ order = <<>>
    /\ NoManager
    /\ NoRequest
    /\ NoConnections

\* thread t's set: the whole body runs under the lock
WriterSet(t) ==
    /\ pc[t] = "ready"
    /\ \E t2 \in ClockReads(now) :
         /\ l1_cache' = SetObj(l1_cache, arg[t].question, arg[t].answer,
                               arg[t].is_fallback, arg[t].category,
                               arg[t].section, now, t2)
         /\ now' = t2
    /\ ret' = RetOf("set", arg[t], now, Found(arg[t].answer, arg[t].is_fallback), TRUE)
    /\ steps' = steps + 1
    /\ pc' = [pc EXCEPT ![t] = "done"]
    /\ order' = Append(order, t)
    /\ UNCHANGED << arg, orchVars, pipeVars, connVars >>

\* once every set has returned, thread t's get
WriterGet(t) ==
    /\ AllDone
    /\ pc[t] = "done"
    /\ \E t2 \in ClockReads(now) :
         LET value == GetValue(l1_cache, arg[t].question, arg[t].category,
                               arg[t].section, now)
         IN  /\ l1_cache' = GetObj(l1_cache, arg[t].question, arg[t].category,
                                   arg[t].section, now, t2)
             /\ now' = IF value.found THEN t2 ELSE now
             /\ ret' = RetOf("get", arg[t], now, value, TRUE)
    /\ steps' = steps + 1
    /\ pc' = [pc EXCEPT ![t] = "checked"]
    /\ UNCHANGED << arg, order, orchVars, pipeVars, connVars >>

NextWriters ==
    \/ Tick
    \/ \E t \in Threads : WriterSet(t)
    \/ \E t \in Threads : WriterGet(t)

SpecWriters == InitWriters /\ [][NextWriters]_vars

\* ------------------------------------------------ the two-tier manager
\* The methods of DistributedCacheManager are coroutines of one event loop: a
\* task runs alone from one await of a Redis command to the next, so one
\* action is the code between two such awaits.  pc[t] is the await task t is
\* suspended at, arg[t] the arguments of its call.  Every Redis command of
\* get and set is under wait_for(timeout=2.0), and initialize's ping under
\* the socket timeout of 5 s: less than TickSeconds, so the clock moves to
\* its next value at most once while a command is out.

\* what other processes have stored in Redis before: one payload of any kind
SeedValue == ValueOf(3)
SeedKinds == { "zlib_json", "raw_json", "raw_text", "binary" }
NoValue == [ answer |-> 0, is_fallback |-> FALSE ]

\* the tasks of the event loop: the one that creates the manager and awaits
\* its initialize(), one that calls get and one that calls set
Tasks == { "startup", "reader", "writer" }

InFlight(t) == pc[t] # "idle"
\* the clock may move while no command has already seen it move
CanAdvance(t) == \A u \in Tasks \ {t} : InFlight(u) => ~waited[u]
\* the values a reading of the clock later in a step of task t can give
OrchClockReads(t) == IF CanAdvance(t) THEN ClockReads(now) ELSE { now }
\* the flags after a step of task t that ends with the clock at t2
WaitedAfter(t, t2) ==
    [u \in Tasks |-> u # t /\ InFlight(u) /\ (waited[u] \/ t2 > now)]

InitOrch ==
    /\ \E ttl \in { TickSeconds, LongTtl } : l1_cache = NewCache(MaxSizeBound, ttl)
    /\ \E z \in BOOLEAN : mgr = NewManager(z, LongTtl)
    /\ \E k \in OrchKeys, kind \in SeedKinds \cup { "none" } :
         redis = [ data |-> [ x \in OrchKeys |->
                                IF x = k /\ kind # "none"
                                THEN Payload(kind, SeedValue, StartTime + LongTtl)
                                ELSE NoData ] ]
    /\ now = StartTime
    /\ steps = 0
    /\ ret = NoRet
    /\ pc = [t \in Tasks |-> "idle"]
    /\ arg = [t \in Tasks |-> NoCall]
    /\ order = <<>>
    /\ waited = [t \in Tasks |-> FALSE]
    /\ NoRequest
    /\ NoConnections

\* time passes between two steps of the event loop
OrchTick ==
    /\ \A t \in Tasks : InFlight(t) => ~waited[t]
    /\ now + TickSeconds <= EndTime
    /\ now' = now + TickSeconds
    /\ waited' = [t \in Tasks |-> InFlight(t)]
    /\ UNCHANGED << l1_cache, steps, ret, pc, arg, order, mgr, redis, pipeVars, connVars >>

\* task t's call returns r to its caller; of the clock readings of the call
\* none is recorded
Return(t, r) ==
    /\ pc' = [pc EXCEPT ![t] = "idle"]
    /\ arg' = [arg EXCEPT ![t] = NoCall]
    /\ ret' = [r EXCEPT !.t = 0]

\* task t's call, with arguments a, is suspended at the await `at`
Suspend(t, at, a) ==
    /\ pc' = [pc EXCEPT ![t] = at]
    /\ arg' = [arg EXCEPT ![t] = a]
    /\ ret' = ret

InitializeReportsConnection(connected) == connected
\* what initialize() returns, with or without a connection
InitializeResult(connected) == TRUE

\* initialize() up to `await self.redis_client.ping()`: without the redis
\* library it returns at once, and so it does when from_url raises
InitializeStart(t, outcome) ==
    /\ pc[t] = "idle"
    /\ ~mgr.initialized
    /\ IF outcome = "connecting"
       THEN /\ mgr' = [mgr EXCEPT !.redis_client = TRUE]
            /\ Suspend(t, "init_ping", NoCall)
       ELSE /\ mgr' = [mgr EXCEPT !.initialized = TRUE,
                                  !.redis_healthy = (outcome = "no_library" /\ @)]
            /\ Return(t, RetOf("initialize", NoCall, now, Absent, InitializeResult(FALSE)))
    /\ waited' = WaitedAfter(t, now)
    /\ UNCHANGED << l1_cache, now, steps, order, redis, pipeVars, connVars >>

\* initialize() from the answer to its ping on
InitializePing(t, pong) ==
    /\ pc[t] = "init_ping"
    /\ mgr' = [mgr EXCEPT !.redis_healthy = pong, !.initialized = TRUE]
    /\ Return(t, RetOf("initialize", NoCall, now, Absent, InitializeResult(pong)))
    /\ waited' = WaitedAfter(t, now)
    /\ UNCHANGED << l1_cache, now, steps, order, redis, pipeVars, connVars >>

\* await get(question, category, section), up to its first await of Redis
MgrGetStart(t, r) ==
    /\ pc[t] = "idle"
    /\ steps < MaxCalls
    /\ steps' = steps + 1
    /\ \E t2 \in OrchClockReads(t) :
         LET value == GetValue(l1_cache, r.question, r.category, r.section, now)
             t3 == IF value.found THEN t2 ELSE now
             counted == Bump(mgr, "total_requests")
             check == CheckRedisHealth(counted, t3)
         IN  /\ l1_cache' = GetObj(l1_cache, r.question, r.category, r.section, now, t2)
             /\ now' = t3
             /\ waited' = WaitedAfter(t, t3)
             /\ IF L1Hit(value)
                THEN /\ mgr' = Bump(counted, "l1_hits")
                     /\ Return(t, RetOf("mgr.get", r, t3, value, TRUE))
                ELSE CASE check.answer = "healthy" ->
                            /\ mgr' = check.mgr
                            /\ Suspend(t, "get_read", CallOf(r, NoValue))
                       [] check.answer = "ping" ->
                            /\ mgr' = check.mgr
                            /\ Suspend(t, "get_ping", CallOf(r, NoValue))
                       [] OTHER ->
                            /\ mgr' = Bump(check.mgr, "misses")
                            /\ Return(t, RetOf("mgr.get", r, t3, Absent, TRUE))
    /\ UNCHANGED << order, redis, pipeVars, connVars >>

\* get, from the answer to the ping of _check_redis_health on: pong is
\* whether the ping was answered within its timeout
MgrGetPing(t, pong) ==
    /\ pc[t] = "get_ping"
    /\ IF pong
       THEN /\ mgr' = [mgr EXCEPT !.redis_healthy = TRUE]
            /\ Suspend(t, "get_read", arg[t])
       ELSE /\ mgr' = Bump([mgr EXCEPT !.redis_healthy = FALSE], "misses")
            /\ Return(t, RetOf("mgr.get", arg[t], now, Absent, TRUE))
    /\ waited' = WaitedAfter(t, now)
    /\ UNCHANGED << l1_cache, now, steps, order, redis, pipeVars, connVars >>

\* get, from the outcome of redis_client.get(cache_key) on: a reply, a
\* TimeoutError of wait_for, or another exception of the client
MgrGetRead(t, outcome) ==
    /\ pc[t] = "get_read"
    /\ LET r == arg[t]
           data == RedisGet(redis, L2Key(r.question, r.category, r.section), now)
       IN  IF outcome = "reply" /\ data.kind # "none" /\ Decodable(mgr, data)
           THEN \E t2 \in OrchClockReads(t) :
                  /\ l1_cache' = Promote(l1_cache, r, data, now, t2)
                  /\ now' = t2
                  /\ waited' = WaitedAfter(t, t2)
                  /\ mgr' = Bump(mgr, "l2_hits")
                  /\ Return(t, RetOf("mgr.get", r, t2,
                                     Found(data.answer, data.is_fallback), TRUE))
           ELSE /\ mgr' = IF outcome = "reply" /\ data.kind = "none"
                          THEN Bump(mgr, "misses")
                          ELSE ReadFailed(mgr)
                /\ Return(t, RetOf("mgr.get", r, now, Absent, TRUE))
                /\ waited' = WaitedAfter(t, now)
                /\ UNCHANGED << l1_cache, now >>
    /\ UNCHANGED << steps, order, redis, pipeVars, connVars >>

\* await set(question, answer, is_fallback, category, section), up to its
\* first await of Redis
MgrSetStart(t, c) ==
    /\ pc[t] = "idle"
    /\ steps < MaxCalls
    /\ steps' = steps + 1
    /\ \E t2 \in OrchClockReads(t) :
         LET check == CheckRedisHealth(mgr, t2)
         IN  /\ l1_cache' = SetObj(l1_cache, c.question, c.answer, c.is_fallback,
                                   c.category, c.section, now, t2)
             /\ now' = t2
             /\ waited' = WaitedAfter(t, t2)
             /\ mgr' = check.mgr
             /\ CASE check.answer = "healthy" ->
                       Suspend(t, "set_write", c)
                  [] check.answer = "ping" ->
                       Suspend(t, "set_ping", c)
                  [] OTHER ->
                       Return(t, RetOf("mgr.set", c, t2, Found(c.answer, c.is_fallback),
                                       SetResult("unhealthy")))
    /\ UNCHANGED << order, redis, pipeVars, connVars >>

\* set, from the answer to the ping of _check_redis_health on
MgrSetPing(t, pong) ==
    /\ pc[t] = "set_ping"
    /\ mgr' = [mgr EXCEPT !.redis_healthy = pong]
    /\ IF pong
       THEN Suspend(t, "set_write", arg[t])
       ELSE Return(t, RetOf("mgr.set", arg[t], now,
                            Found(arg[t].answer, arg[t].is_fallback),
                            SetResult("unhealthy")))
    /\ waited' = WaitedAfter(t, now)
    /\ UNCHANGED << l1_cache, now, steps, order, redis, pipeVars, connVars >>

\* set, from the outcome of redis_client.setex(cache_key, ttl, bytes) on: it
\* was done ("ok"), wait_for gave up ("timeout", the server may or may not
\* have stored the bytes), or the client raised ("error")
MgrSetWrite(t, outcome, applied) ==
    /\ pc[t] = "set_write"
    /\ outcome = "ok" => applied
    /\ outcome = "error" => ~applied
    /\ LET c == arg[t]
           key == L2Key(c.question, c.category, c.section)
       IN  /\ redis' = IF applied
                       THEN [redis EXCEPT !.data[key] =
                               Payload(CompressData(mgr), c, now + mgr.l2_ttl_seconds)]
                       ELSE redis
           /\ mgr' = IF outcome = "ok" THEN mgr ELSE Bump(mgr, "errors")
           /\ Return(t, RetOf("mgr.set", c, now, Found(c.answer, c.is_fallback),
                              SetResult(outcome)))
    /\ waited' = WaitedAfter(t, now)
    /\ UNCHANGED << l1_cache, now, steps, order, pipeVars, connVars >>

OrchCalls == { CallOf(r, v) : r \in OrchRequests, v \in Values }

NextOrch ==
    \/ OrchTick
    \/ \E outcome \in { "no_library", "failed", "connecting" } :
         InitializeStart("startup", outcome)
    \/ \E pong \in BOOLEAN : InitializePing("startup", pong)
    \/ \E r \in OrchRequests : MgrGetStart("reader", r)
    \/ \E pong \in BOOLEAN : MgrGetPing("reader", pong)
    \/ \E outcome \in { "reply", "timeout", "error" } : MgrGetRead("reader", outcome)
    \/ \E c \in OrchCalls : MgrSetStart("writer", c)
    \/ \E pong \in BOOLEAN : MgrSetPing("writer", pong)
    \/ \E outcome \in { "ok", "timeout", "error" }, applied \in BOOLEAN :
         MgrSetWrite("writer", outcome, applied)

SpecOrch == InitOrch /\ [][NextOrch]_vars

\* ---------------------------------------------- the local cache, its keys
\* questions that differ in letter case and in whitespace around them
KeyQuestions == { <<"a">>, <<" ", "A", "\n">> }
\* a filter that is absent, the empty string, or a value
KeyFilters == { None, Some(""), Some("c") }
KeyRequests ==
    { [ question |-> q, category |-> c, section |-> s ] :
      q \in KeyQuestions, c \in KeyFilters, s \in { None, Some("") } }
KeyCalls == { CallOf(r, v) : r \in KeyRequests, v \in Values }

InitKeys ==
    /\ \E m \in 1..MaxSizeBound : l1_cache = NewCache(m, LongTtl)
    /\ now = StartTime
    /\ steps = 0
    /\ ret = NoRet
    /\ pc = [t \in Threads |-> "idle"]
    /\ arg = [t \in Threads |-> NoCall]
    /\ order = <<>>
    /\ NoManager
    /\ NoRequest
    /\ NoConnections

\* get and set as in Next, at most MaxKeyCalls of them
KeyGet(r) == steps < MaxKeyCalls /\ Get(r)
KeySet(c) == steps < MaxKeyCalls /\ Set(c)

NextKeys ==
    \/ \E r \in KeyRequests : KeyGet(r)
    \/ \E c \in KeyCalls : KeySet(c)

SpecKeys == InitKeys /\ [][NextKeys]_vars
\* ------------------------------------------ the local cache, its counters
\* set and get of two questions on a cache whose entries expire, while the
\* clock advances
CounterRequests == { r \in Requests : r.category = None /\ Len(r.question) = 1 }
CounterCalls == { CallOf(r, ValueOf(1)) : r \in CounterRequests }

InitCounters ==
    /\ \E m \in 1..MaxSizeBound, ttl \in TtlChoices : l1_cache = NewCache(m, ttl)
    /\ now = StartTime
    /\ steps = 0
    /\ ret = NoRet
    /\ pc = [t \in Threads |-> "idle"]
    /\ arg = [t \in Threads |-> NoCall]
    /\ order = <<>>
    /\ NoManager
    /\ NoRequest
    /\ NoConnections

CounterGet(r) == steps < MaxCounterCalls /\ Get(r)
CounterSet(c) == steps < MaxCounterCalls /\ Set(c)

NextCounters ==
    \/ Tick
    \/ \E r \in CounterRequests : CounterGet(r)
    \/ \E c \in CounterCalls : CounterSet(c)

SpecCounters == InitCounters /\ [][NextCounters]_vars
\* ----------------------- worker threads of one cache: set, then get, again
\* test_thread_safety's worker: in round i thread t sets the question
\* "<t>_<i>" to an answer of its own and gets it back
Digits == << "0", "1", "2", "3", "4", "5", "6", "7", "8", "9" >>
\* the rounds thread t has begun: its sets so far
Round(t) == Cardinality({ i \in 1..Len(order) : order[i] = t })
WorkerCall(t, i) ==
    [ question |-> << Digits[t + 1], "_", Digits[i + 1] >>,
      category |-> None, section |-> None,
      answer |-> 10 * t + i, is_fallback |-> FALSE ]

InitWorkers ==
    /\ \E m \in 1..MaxSizeBound : l1_cache = NewCache(m, LongTtl)
    /\ now = StartTime
    /\ steps = 0
    /\ ret = NoRet
    /\ pc = [t \in Threads |-> "ready"]
    /\ arg = [t \in Threads |-> NoCall]
    /\ order = <<>>
    /\ NoManager
    /\ NoRequest
    /\ NoConnections

\* thread t's cache.set(question, answer, False), under the lock
WorkerSet(t) ==
    /\ pc[t] = "ready"
    /\ steps < MaxSteps
    /\ LET c == WorkerCall(t, Round(t))
       IN  /\ \E t2 \in ClockReads(now) :
                /\ l1_cache' = SetObj(l1_cache, c.question, c.answer, c.is_fallback,
                                      c.category, c.section, now, t2)
                /\ now' = t2
           /\ arg' = [arg EXCEPT ![t] = c]
           /\ ret' = RetOf("set", c, now, Found(c.answer, c.is_fallback), TRUE)
    /\ steps' = steps + 1
    /\ pc' = [pc EXCEPT ![t] = "done"]
    /\ order' = Append(order, t)
    /\ UNCHANGED << orchVars, pipeVars, connVars >>

\* thread t's cache.get(question), under the lock
WorkerGet(t) ==
    /\ pc[t] = "done"
    /\ steps < MaxSteps
    /\ \E t2 \in ClockReads(now) :
         LET value == GetValue(l1_cache, arg[t].question, arg[t].category,
                               arg[t].section, now)
         IN  /\ l1_cache' = GetObj(l1_cache, arg[t].question, arg[t].category,
                                   arg[t].section, now, t2)
             /\ now' = IF value.found THEN t2 ELSE now
             /\ ret' = RetOf("get", arg[t], now, value, TRUE)
    /\ steps' = steps + 1
    /\ pc' = [pc EXCEPT ![t] = "ready"]
    /\ UNCHANGED << arg, order, orchVars, pipeVars, connVars >>

NextWorkers ==
    \/ \E t \in Threads : WorkerSet(t)
    \/ \E t \in Threads : WorkerGet(t)

SpecWorkers == InitWorkers /\ [][NextWorkers]_vars
\* ------------------- the manager called with a question that is not a str
\* a question that is not a str (None, a number): it has no lower()
NonString == << "not a str" >>
\* _generate_cache_key: question.lower() raises AttributeError
KeyRaises(question) == question = NonString
FaultyRequests == { [ question |-> NonString, category |-> None, section |-> None ] }

\* await get(question, ...) whose l1_cache.get raises: the local cache has
\* counted the request, the manager has counted it, and the try of get has a
\* finally and no except, so the exception reaches the caller
MgrGetL1Raises(t, r) ==
    /\ pc[t] = "idle"
    /\ steps < MaxCalls
    /\ steps' = steps + 1
    /\ KeyRaises(r.question)
    /\ l1_cache' = [l1_cache EXCEPT !.stats.total_requests = @ + 1]
    /\ mgr' = Bump(mgr, "total_requests")
    /\ Return(t, Raised(RetOf("mgr.get", r, now, Absent, TRUE)))
    /\ waited' = WaitedAfter(t, now)
    /\ UNCHANGED << now, order, redis, pipeVars, connVars >>

\* await set(question, ...) whose l1_cache.set raises: the outer
\* `except Exception` of set prints and returns False
MgrSetL1Raises(t, c) ==
    /\ pc[t] = "idle"
    /\ steps < MaxCalls
    /\ steps' = steps + 1
    /\ KeyRaises(c.question)
    /\ Return(t, RetOf("mgr.set", c, now, Found(c.answer, c.is_fallback), FALSE))
    /\ waited' = WaitedAfter(t, now)
    /\ UNCHANGED << l1_cache, now, order, mgr, redis, pipeVars, connVars >>

FaultyCalls == { CallOf(r, ValueOf(1)) : r \in FaultyRequests }

\* one manager with compression on, Redis holding nothing or one entry
InitFaults ==
    /\ InitOrch
    /\ l1_cache.ttl_seconds = LongTtl
    /\ mgr.compression_enabled
    /\ \A k \in OrchKeys : redis.data[k].kind \in { "none", "zlib_json" }

NextFaults ==
    \/ NextOrch
    \/ \E r \in FaultyRequests : MgrGetL1Raises("reader", r)
    \/ \E c \in FaultyCalls : MgrSetL1Raises("writer", c)

SpecFaults == InitFaults /\ [][NextFaults]_vars
\* ------------------------------------- the manager, pattern invalidation
\* the patterns given to clear_by_pattern: the empty one, for which the glob
\* "chat_cache:*" + pattern + "*" matches every key of the manager, and one
\* with a letter no hexadecimal digest contains, which matches none
Patterns == { <<>>, <<"z">> }
GlobMatches(pattern, key) == pattern = <<>>
PatternCall(pattern) == [NoCall EXCEPT !.question = pattern]
\* what redis_client.keys(glob) lists at time t
RedisKeys(r, pattern, t) ==
    { k \in OrchKeys : GlobMatches(pattern, k) /\ RedisGet(r, k, t).kind # "none" }
\* what clear_by_pattern returns: the number of keys deleted, or 0
ClearResult(pattern, deleted) ==
    [RetOf("mgr.clear_by_pattern", PatternCall(pattern), now, Absent, TRUE)
        EXCEPT !.answer = deleted]

\* await clear_by_pattern(pattern), up to its first await of Redis
MgrClearStart(t, pattern) ==
    /\ pc[t] = "idle"
    /\ steps < MaxCalls
    /\ steps' = steps + 1
    /\ LET check == CheckRedisHealth(mgr, now)
       IN  /\ mgr' = check.mgr
           /\ CASE check.answer = "healthy" ->
                     Suspend(t, "clear_keys", PatternCall(pattern))
                [] check.answer = "ping" ->
                     Suspend(t, "clear_ping", PatternCall(pattern))
                [] OTHER ->
                     Return(t, ClearResult(pattern, 0))
    /\ waited' = WaitedAfter(t, now)
    /\ UNCHANGED << l1_cache, now, order, redis, pipeVars, connVars >>

\* clear_by_pattern, from the answer to the ping of _check_redis_health on
MgrClearPing(t, pong) ==
    /\ pc[t] = "clear_ping"
    /\ mgr' = [mgr EXCEPT !.redis_healthy = pong]
    /\ IF pong
       THEN Suspend(t, "clear_keys", arg[t])
       ELSE Return(t, ClearResult(arg[t].question, 0))
    /\ waited' = WaitedAfter(t, now)
    /\ UNCHANGED << l1_cache, now, steps, order, redis, pipeVars, connVars >>

\* clear_by_pattern, from the outcome of redis_client.keys(glob) on: a list
\* of keys, or an exception, which is printed
MgrClearKeys(t, outcome) ==
    /\ pc[t] = "clear_keys"
    /\ IF outcome = "reply" /\ RedisKeys(redis, arg[t].question, now) # {}
       THEN Suspend(t, "clear_delete", arg[t])
       ELSE Return(t, ClearResult(arg[t].question, 0))
    /\ waited' = WaitedAfter(t, now)
    /\ UNCHANGED << l1_cache, now, steps, order, mgr, redis, pipeVars, connVars >>

\* clear_by_pattern, from the outcome of redis_client.delete(*keys) on: the
\* number of listed keys that were still there, or an exception (the server
\* may or may not have deleted them).  The manager has one key, so the
\* listed keys are the keys the pattern matches.
MgrClearDelete(t, outcome, applied) ==
    /\ pc[t] = "clear_delete"
    /\ outcome = "ok" => applied
    /\ LET gone == RedisKeys(redis, arg[t].question, now)
       IN  /\ redis' = IF applied
                       THEN [redis EXCEPT !.data =
                               [k \in OrchKeys |-> IF k \in gone THEN NoData ELSE @[k]]]
                       ELSE redis
           /\ Return(t, ClearResult(arg[t].question,
                                    IF outcome = "ok" THEN Cardinality(gone) ELSE 0))
    /\ waited' = WaitedAfter(t, now)
    /\ UNCHANGED << l1_cache, now, steps, order, mgr, pipeVars, connVars >>

\* the manager after initialize() found Redis and one set(question, ...) of
\* the seed value has returned: the local cache holds the entry, Redis holds
\* it too unless the write failed, and the set has made the health check
InitInvalidate ==
    /\ \E r \in OrchRequests, stored \in BOOLEAN, z \in BOOLEAN,
          ttl \in { TickSeconds, LongTtl } :
         /\ l1_cache = SetObj(NewCache(MaxSizeBound, ttl), r.question,
                              SeedValue.answer, SeedValue.is_fallback,
                              r.category, r.section, StartTime, StartTime)
         /\ mgr = [NewManager(z, LongTtl) EXCEPT !.redis_client = TRUE,
                                                !.redis_healthy = TRUE,
                                                !.initialized = TRUE,
                                                !.last_health_check = StartTime]
         /\ redis = [ data |-> [ k \in OrchKeys |->
                        IF stored /\ k = L2Key(r.question, r.category, r.section)
                        THEN Payload(CompressData(mgr), SeedValue, StartTime + LongTtl)
                        ELSE NoData ] ]
    /\ now = StartTime
    /\ steps = 0
    /\ ret = NoRet
    /\ pc = [t \in Tasks |-> "idle"]
    /\ arg = [t \in Tasks |-> NoCall]
    /\ order = <<>>
    /\ waited = [t \in Tasks |-> FALSE]
    /\ NoRequest
    /\ NoConnections

\* the reader's gets, the writer's sets and invalidations
NextInvalidate ==
    \/ OrchTick
    \/ \E r \in OrchRequests : MgrGetStart("reader", r)
    \/ \E pong \in BOOLEAN : MgrGetPing("reader", pong)
    \/ \E outcome \in { "reply", "timeout", "error" } : MgrGetRead("reader", outcome)
    \/ \E c \in OrchCalls : MgrSetStart("writer", c)
    \/ \E pong \in BOOLEAN : MgrSetPing("writer", pong)
    \/ \E outcome \in { "ok", "timeout", "error" }, applied \in BOOLEAN :
         MgrSetWrite("writer", outcome, applied)
    \/ \E pattern \in Patterns : MgrClearStart("writer", pattern)
    \/ \E pong \in BOOLEAN : MgrClearPing("writer", pong)
    \/ \E outcome \in { "reply", "error" } : MgrClearKeys("writer", outcome)
    \/ \E outcome \in { "ok", "error" }, applied \in BOOLEAN :
         MgrClearDelete("writer", outcome, applied)

SpecInvalidate == InitInvalidate /\ [][NextInvalidate]_vars
\* ------------------------------- the local cache, all its public methods
\* the calls of SpecCounters and, beside them, clear and cleanup
LocalClear == steps < MaxCounterCalls /\ Clear
LocalCleanup == steps < MaxCounterCalls /\ Cleanup

NextLocal ==
    \/ Tick
    \/ \E r \in CounterRequests : CounterGet(r)
    \/ \E c \in CounterCalls : CounterSet(c)
    \/ LocalClear
    \/ LocalCleanup

SpecLocal == InitCounters /\ [][NextLocal]_vars
\* ------------------------- the local cache: a key set again, two answers
\* The calls of SpecCounters with both answers, so that a set of a stored key
\* replaces an answer and a flag by other ones.
UpdateCalls == { CallOf(r, v) : r \in CounterRequests, v \in Values }
UpdateSet(c) == steps < MaxCounterCalls /\ Set(c)

NextUpdate ==
    \/ Tick
    \/ \E r \in CounterRequests : CounterGet(r)
    \/ \E c \in UpdateCalls : UpdateSet(c)

SpecUpdate == InitCounters /\ [][NextUpdate]_vars
\* --------------------- the manager, its tier unhealthy, Redis reachable
\* The states the manager is left in when Redis could not be reached: after
\* an initialize() that made no client or whose ping was not answered
\* (last_health_check is 0), and after a set that followed it at StartTime,
\* stored its value in L1 and, with a client, sent a ping that was not
\* answered.  From these states on Redis answers every command.
RecoveryValue == ValueOf(1)
InitRecovery ==
    /\ \E r \in OrchRequests, client \in BOOLEAN, held \in BOOLEAN,
          ttl \in { TickSeconds, LongTtl } :
         /\ l1_cache = IF held
                       THEN SetObj(NewCache(MaxSizeBound, ttl), r.question,
                                   RecoveryValue.answer, RecoveryValue.is_fallback,
                                   r.category, r.section, StartTime, StartTime)
                       ELSE NewCache(MaxSizeBound, ttl)
         /\ mgr = [NewManager(TRUE, LongTtl) EXCEPT
                     !.redis_client = client,
                     !.initialized = TRUE,
                     !.last_health_check = IF held THEN StartTime ELSE 0]
    /\ redis = [ data |-> [k \in OrchKeys |-> NoData] ]
    /\ now = StartTime
    /\ steps = 0
    /\ ret = NoRet
    /\ pc = [t \in Tasks |-> "idle"]
    /\ arg = [t \in Tasks |-> NoCall]
    /\ order = <<>>
    /\ waited = [t \in Tasks |-> FALSE]
    /\ NoRequest
    /\ NoConnections

\* the calls of get and set; every ping, read and write is answered
NextRecovery ==
    \/ OrchTick
    \/ \E r \in OrchRequests : MgrGetStart("reader", r)
    \/ MgrGetPing("reader", TRUE)
    \/ MgrGetRead("reader", "reply")
    \/ \E c \in OrchCalls : MgrSetStart("writer", c)
    \/ MgrSetPing("writer", TRUE)
    \/ MgrSetWrite("writer", "ok", TRUE)

\* a ping that was sent is answered: wait_for(..., timeout=2.0) ends the
\* await, and the event loop resumes the task
AnsweredPings == MgrGetPing("reader", TRUE) \/ MgrSetPing("writer", TRUE)

SpecRecovery == InitRecovery /\ [][NextRecovery]_vars /\ WF_vars(AnsweredPings)
\* ------------------- the manager: a get in flight while a set is made
\* The manager after initialize() and the start of one get(question): the
\* get missed L1, its health check (the first) pinged Redis and was answered,
\* and its read of the key is out.  Redis holds for the key a value another
\* process stored there.
InitStale ==
    /\ \E r \in OrchRequests, z \in BOOLEAN, ttl \in { TickSeconds, LongTtl } :
         /\ l1_cache = GetObj(NewCache(MaxSizeBound, ttl), r.question, r.category,
                              r.section, StartTime, StartTime)
         /\ mgr = [Bump(NewManager(z, LongTtl), "total_requests") EXCEPT
                     !.redis_client = TRUE,
                     !.redis_healthy = TRUE,
                     !.initialized = TRUE,
                     !.last_health_check = StartTime]
         /\ redis = [ data |-> [ k \in OrchKeys |->
                        IF k = L2Key(r.question, r.category, r.section)
                        THEN Payload(CompressData(mgr), SeedValue, StartTime + LongTtl)
                        ELSE NoData ] ]
         /\ arg = [t \in Tasks |-> IF t = "reader" THEN CallOf(r, NoValue) ELSE NoCall]
    /\ now = StartTime
    /\ steps = 0
    /\ ret = NoRet
    /\ pc = [t \in Tasks |-> IF t = "reader" THEN "get_read" ELSE "idle"]
    /\ order = <<>>
    /\ waited = [t \in Tasks |-> FALSE]
    /\ NoRequest
    /\ NoConnections

\* the calls of get and set that follow: initialize() has returned
NextStale ==
    \/ OrchTick
    \/ \E r \in OrchRequests : MgrGetStart("reader", r)
    \/ \E pong \in BOOLEAN : MgrGetPing("reader", pong)
    \/ \E outcome \in { "reply", "timeout", "error" } : MgrGetRead("reader", outcome)
    \/ \E c \in OrchCalls : MgrSetStart("writer", c)
    \/ \E pong \in BOOLEAN : MgrSetPing("writer", pong)
    \/ \E outcome \in { "ok", "timeout", "error" }, applied \in BOOLEAN :
         MgrSetWrite("writer", outcome, applied)

SpecStale == InitStale /\ [][NextStale]_vars
\* ----------------------------- the manager: two sets of one key at once
\* Two tasks of the event loop call set; the manager is as initialize()
\* leaves it when its ping was answered (healthy, no health check made yet),
\* both tiers empty.  Redis answers every ping and stores every write.
Setters == { "reader", "writer" }

InitAgree ==
    /\ \E z \in BOOLEAN, ttl \in { TickSeconds, LongTtl } :
         /\ l1_cache = NewCache(MaxSizeBound, ttl)
         /\ mgr = [NewManager(z, LongTtl) EXCEPT !.redis_client = TRUE,
                                                !.redis_healthy = TRUE,
                                                !.initialized = TRUE]
    /\ redis = [ data |-> [k \in OrchKeys |-> NoData] ]
    /\ now = StartTime
    /\ steps = 0
    /\ ret = NoRet
    /\ pc = [t \in Tasks |-> "idle"]
    /\ arg = [t \in Tasks |-> NoCall]
    /\ order = <<>>
    /\ waited = [t \in Tasks |-> FALSE]
    /\ NoRequest
    /\ NoConnections

NextAgree ==
    \/ OrchTick
    \/ \E t \in Setters, c \in OrchCalls : MgrSetStart(t, c)
    \/ \E t \in Setters : MgrSetPing(t, TRUE)
    \/ \E t \in Setters : MgrSetWrite(t, "ok", TRUE)

SpecAgree == InitAgree /\ [][NextAgree]_vars
\* ------------------- the manager: a value stored in Redis some time ago
\* The manager as initialize() leaves it when its ping was answered, L1
\* empty.  Redis holds for the key a value that the set of another process,
\* configured alike, stored one tick before this process started.
SeedStoredAt == StartTime - TickSeconds

InitAged ==
    /\ \E r \in OrchRequests, z \in BOOLEAN, ttl \in { TickSeconds, LongTtl } :
         /\ l1_cache = NewCache(MaxSizeBound, ttl)
         /\ mgr = [NewManager(z, LongTtl) EXCEPT !.redis_client = TRUE,
                                                !.redis_healthy = TRUE,
                                                !.initialized = TRUE]
         /\ redis = [ data |-> [ k \in OrchKeys |->
                        IF k = L2Key(r.question, r.category, r.section)
                        THEN Payload(CompressData(mgr), SeedValue,
                                     SeedStoredAt + mgr.l2_ttl_seconds)
                        ELSE NoData ] ]
    /\ now = StartTime
    /\ steps = 0
    /\ ret = NoRet
    /\ pc = [t \in Tasks |-> "idle"]
    /\ arg = [t \in Tasks |-> NoCall]
    /\ order = <<>>
    /\ waited = [t \in Tasks |-> FALSE]
    /\ NoRequest
    /\ NoConnections

SpecAged == InitAged /\ [][NextStale]_vars
\* ------------------------- get_distributed_cache(), in tasks of one loop
\* No manager exists yet; mgr and l1_cache are what
\* DistributedCacheManager(config) will make of the environment's settings.
InitGlobal ==
    /\ \E ttl \in { TickSeconds, LongTtl } : l1_cache = NewCache(MaxSizeBound, ttl)
    /\ \E z \in BOOLEAN : mgr = NewManager(z, LongTtl)
    /\ redis = [ data |-> [k \in OrchKeys |-> NoData] ]
    /\ now = StartTime
    /\ steps = 0
    /\ ret = NoRet
    /\ pc = [t \in Tasks |-> "idle"]
    /\ arg = [t \in Tasks |-> NoCall]
    /\ order = <<>>
    /\ waited = [t \in Tasks |-> FALSE]
    /\ NoRequest
    /\ NoConnections

\* get_distributed_cache returns the global to task t
ReturnInstance(t) ==
    Return(t, RetOf("get_distributed_cache", NoCall, now, Absent, TRUE))

\* await get_distributed_cache(), to its return or to the await of
\* initialize's ping.  The tasks share one thread: between the test of the
\* global and its assignment no other task runs, and _cache_lock, taken by
\* the task that finds None, is asked for by no other task, since the global
\* is set before the first await.
GetDistributedCache(t, outcome) ==
    /\ pc[t] = "idle"
    /\ steps < MaxCounterCalls
    /\ steps' = steps + 1
    /\ IF ~_distributed_cache.created
       THEN /\ _distributed_cache' =
                 [ created |-> TRUE,
                   constructed |-> _distributed_cache.constructed + 1,
                   initialize_calls |-> _distributed_cache.initialize_calls + 1 ]
            /\ IF outcome = "connecting"
               THEN /\ mgr' = [mgr EXCEPT !.redis_client = TRUE]
                    /\ Suspend(t, "init_ping", NoCall)
               ELSE /\ mgr' = [mgr EXCEPT !.initialized = TRUE,
                                          !.redis_healthy = (outcome = "no_library" /\ @)]
                    /\ ReturnInstance(t)
       ELSE /\ ReturnInstance(t)
            /\ UNCHANGED << mgr, _distributed_cache >>
    /\ waited' = WaitedAfter(t, now)
    /\ UNCHANGED << l1_cache, now, order, redis, pipeVars, connection_manager >>

\* get_distributed_cache from the answer to initialize's ping on
GetDistributedCachePing(t, pong) ==
    /\ pc[t] = "init_ping"
    /\ mgr' = [mgr EXCEPT !.redis_healthy = pong, !.initialized = TRUE]
    /\ ReturnInstance(t)
    /\ waited' = WaitedAfter(t, now)
    /\ UNCHANGED << l1_cache, now, steps, order, redis, pipeVars, connVars >>

NextGlobal ==
    \/ OrchTick
    \/ \E t \in Tasks, outcome \in { "connecting", "no_library", "no_pool" } :
         GetDistributedCache(t, outcome)
    \/ \E t \in Tasks, pong \in BOOLEAN : GetDistributedCachePing(t, pong)

SpecGlobal == InitGlobal /\ [][NextGlobal]_vars
\* ------------------------------- ConnectionManager(), in several threads
\* a thread's local `self`: the object __new__ returned to it, 0 before
NoSelf == [ self |-> 0 ]
\* what ConnectionManager() returns to thread t: the object
ConstructedRet(t, obj) == [ op |-> "ConnectionManager", thread |-> t, instance |-> obj ]
\* what a property returns or raises
ServiceRet(t, service, raised) ==
    [ op |-> "property", thread |-> t, service |-> service, raised |-> raised ]

InitSingleton ==
    /\ connection_manager = ClassLoaded
    /\ _distributed_cache = NoInstance
    /\ pc = [t \in Threads |-> "start"]
    /\ arg = [t \in Threads |-> NoSelf]
    /\ now = StartTime
    /\ steps = 0
    /\ ret = NoRet
    /\ l1_cache = NewCache(MaxSizeBound, LongTtl)
    /\ order = <<>>
    /\ NoManager
    /\ NoRequest

\* thread t calls ConnectionManager(), for the first time or again:
\* __new__'s first `if cls._instance is None`, outside the lock
NewCheck(t) ==
    /\ pc[t] \in { "start", "ready" }
    /\ steps < MaxSteps
    /\ steps' = steps + 1
    /\ IF InstanceMissing(connection_manager)
       THEN /\ pc' = [pc EXCEPT ![t] = "new_lock"]
            /\ arg' = [arg EXCEPT ![t] = NoSelf]
       ELSE /\ pc' = [pc EXCEPT ![t] = "init_check"]
            /\ arg' = [arg EXCEPT ![t] = [ self |-> connection_manager.instance ]]
    /\ UNCHANGED << connection_manager, now, ret, restVars >>

\* __new__'s `with cls._lock:`
NewAcquire(t) ==
    /\ pc[t] = "new_lock"
    /\ connection_manager.lock = 0
    /\ connection_manager' = [connection_manager EXCEPT !.lock = t]
    /\ pc' = [pc EXCEPT ![t] = "new_locked"]
    /\ UNCHANGED << arg, now, steps, ret, restVars >>

\* __new__ under the lock: the second test, super().__new__(cls), the
\* release of the lock and `return cls._instance`
NewCreate(t) ==
    /\ pc[t] = "new_locked"
    /\ LET made == InstanceMissing(connection_manager)
           obj == IF made THEN connection_manager.objects + 1
                  ELSE connection_manager.instance
       IN  /\ connection_manager' =
                [connection_manager EXCEPT !.instance = obj,
                                           !.objects = IF made THEN obj ELSE @,
                                           !.lock = 0]
           /\ arg' = [arg EXCEPT ![t] = [ self |-> obj ]]
    /\ pc' = [pc EXCEPT ![t] = "init_check"]
    /\ UNCHANGED << now, steps, ret, restVars >>

\* __init__'s first `if not self._initialized`, outside the lock
InitCheck(t) ==
    /\ pc[t] = "init_check"
    /\ IF connection_manager.initialized
       THEN /\ pc' = [pc EXCEPT ![t] = "ready"]
            /\ ret' = ConstructedRet(t, arg[t].self)
       ELSE /\ pc' = [pc EXCEPT ![t] = "init_lock"]
            /\ ret' = ret
    /\ UNCHANGED << connection_manager, arg, now, steps, restVars >>

\* __init__'s `with self._lock:`
InitAcquire(t) ==
    /\ pc[t] = "init_lock"
    /\ connection_manager.lock = 0
    /\ connection_manager' = [connection_manager EXCEPT !.lock = t]
    /\ pc' = [pc EXCEPT ![t] = "init_locked"]
    /\ UNCHANGED << arg, now, steps, ret, restVars >>

\* __init__ under the lock: the second test and the assignments of the
\* attributes; when another thread has done them the call returns
InitAssign(t) ==
    /\ pc[t] = "init_locked"
    /\ IF ~connection_manager.initialized
       THEN /\ connection_manager' = [connection_manager EXCEPT !.attrs = InitAttrs]
            /\ pc' = [pc EXCEPT ![t] = "init_assigned"]
            /\ ret' = ret
       ELSE /\ connection_manager' = [connection_manager EXCEPT !.lock = 0]
            /\ pc' = [pc EXCEPT ![t] = "ready"]
            /\ ret' = ConstructedRet(t, arg[t].self)
    /\ UNCHANGED << arg, now, steps, restVars >>

\* __init__'s `ConnectionManager._initialized = True` and the release
InitDone(t) ==
    /\ pc[t] = "init_assigned"
    /\ connection_manager' = [connection_manager EXCEPT !.initialized = TRUE, !.lock = 0]
    /\ pc' = [pc EXCEPT ![t] = "ready"]
    /\ ret' = ConstructedRet(t, arg[t].self)
    /\ UNCHANGED << arg, now, steps, restVars >>

\* thread t, holding the manager, reads the property of a service
Use(t, service, outcome) ==
    /\ pc[t] = "ready"
    /\ steps < MaxSteps
    /\ steps' = steps + 1
    /\ connection_manager.attrs.handles[service] \/ connection_manager.lock = 0
    /\ LET got == GetService(connection_manager.attrs, service, outcome)
       IN  /\ connection_manager' = [connection_manager EXCEPT !.attrs = got.attrs]
           /\ ret' = ServiceRet(t, service, got.raised)
    /\ UNCHANGED << pc, arg, now, restVars >>

\* the services read while managers are constructed
UsedServices == { "openai_llm" }

NextSingleton ==
    \/ \E t \in Threads : NewCheck(t)
    \/ \E t \in Threads : NewAcquire(t)
    \/ \E t \in Threads : NewCreate(t)
    \/ \E t \in Threads : InitCheck(t)
    \/ \E t \in Threads : InitAcquire(t)
    \/ \E t \in Threads : InitAssign(t)
    \/ \E t \in Threads : InitDone(t)
    \/ \E t \in Threads, service \in UsedServices, outcome \in { "ok", "error" } :
         Use(t, service, outcome)

SpecSingleton == InitSingleton /\ [][NextSingleton]_vars

\* ---------------------------------- the connection manager, its methods
ConnEndTime == StartTime + MaxTicks * LongTick
ResetRet(name, result) ==
    [ op |-> "reset_connection", service |-> name, result |-> result ]
HealthRet(status, t) == [ op |-> "health_check", status |-> status, t |-> t ]

\* the module's `connection_manager = ConnectionManager()` has returned
InitConn ==
    /\ connection_manager = Constructed
    /\ _distributed_cache = NoInstance
    /\ pc = [t \in Threads |-> "ready"]
    /\ arg = [t \in Threads |-> [ self |-> Constructed.instance ]]
    /\ now = StartTime
    /\ steps = 0
    /\ ret = NoRet
    /\ l1_cache = NewCache(MaxSizeBound, LongTtl)
    /\ order = <<>>
    /\ NoManager
    /\ NoRequest

\* time passes between two calls
ConnTick ==
    /\ now + LongTick <= ConnEndTime
    /\ now' = now + LongTick
    /\ UNCHANGED << connection_manager, steps, ret, pc, arg, restVars >>

\* connection_manager.<service>
ConnGet(service, outcome) ==
    /\ steps < MaxCalls
    /\ steps' = steps + 1
    /\ LET got == GetService(connection_manager.attrs, service, outcome)
       IN  /\ connection_manager' = [connection_manager EXCEPT !.attrs = got.attrs]
           /\ ret' = ServiceRet(1, service, got.raised)
    /\ UNCHANGED << now, pc, arg, restVars >>

\* connection_manager.reset_connection(name)
ResetConnection(name) ==
    /\ steps < MaxCalls
    /\ steps' = steps + 1
    /\ LET done == ResetConnectionObj(connection_manager.attrs, name)
       IN  /\ connection_manager' = [connection_manager EXCEPT !.attrs = done.attrs]
           /\ ret' = ResetRet(name, done.result)
    /\ UNCHANGED << now, pc, arg, restVars >>

\* connection_manager.health_check()
HealthCheck ==
    /\ steps < MaxCalls
    /\ steps' = steps + 1
    /\ connection_manager' =
         [connection_manager EXCEPT !.attrs = HealthCheckObj(@, now)]
    /\ ret' = HealthRet([s \in Services |->
                           HealthStatus(connection_manager.attrs, s, now)], now)
    /\ UNCHANGED << now, pc, arg, restVars >>

NextConn ==
    \/ ConnTick
    \/ \E service \in Services, outcome \in { "ok", "error" } : ConnGet(service, outcome)
    \/ \E name \in ResetNames : ResetConnection(name)
    \/ HealthCheck

SpecConn == InitConn /\ [][NextConn]_vars
\* ------------------------------------------------- the pipeline, a request
\* the cache and the manager take no part in a request
NoCache ==
    /\ l1_cache = NewCache(MaxSizeBound, LongTtl)
    /\ now = StartTime
    /\ steps = 0
    /\ ret = NoRet
    /\ pc = [t \in Threads |-> "idle"]
    /\ arg = [t \in Threads |-> NoCall]
    /\ order = <<>>
    /\ NoManager

\* a request arrives at process_query or at chat_with_bot; k and
\* score_threshold are run_query's, the matches are those the index holds
InitPipeline ==
    /\ NoCache
    /\ NoConnections
    /\ \E entry \in EntryPoints, k \in Ks :
         \E matches \in MatchLists(k) :
           request = [ entry |-> entry, k |-> k, matches |-> matches ]
    /\ stage = "received"
    /\ search_results = <<>>
    /\ content = NoText
    /\ original_answer = NoText
    /\ is_fallback = FALSE
    /\ is_fallback_like = FALSE
    /\ displayed_answer = NoText
    /\ branch = "none"
    /\ alerts = <<>>
    /\ sheet_rows = <<>>
    /\ llm_calls = 0

\* run_query with a search that lets its exception through: the request ends
\* with the error
SearchRaisesThrough(outcome) ==
    /\ stage = "received"
    /\ LET results == FilteredResults(request.matches, request.k, score_threshold)
       IN  IF outcome = "raises"
           THEN /\ stage' = "error"
                /\ UNCHANGED << search_results, original_answer, is_fallback, llm_calls >>
           ELSE IF NoResults(results)
           THEN /\ search_results' = <<>>
                /\ original_answer' = FALLBACK_MESSAGE
                /\ is_fallback' = TRUE
                /\ stage' = "returned"
                /\ UNCHANGED llm_calls
           ELSE /\ search_results' = results
                /\ llm_calls' = llm_calls + 1
                /\ stage' = "generating"
                /\ UNCHANGED << original_answer, is_fallback >>
    /\ UNCHANGED << cacheVars, connVars, request, content, is_fallback_like, displayed_answer,
                    branch, alerts, sheet_rows >>
\* run_query from its start to `chain.invoke(...)`: the search answers with
\* the index's matches or raises (and then returns []); without results
\* run_query returns at once
Search(outcome) ==
    /\ stage = "received"
    /\ LET results == IF outcome = "matches"
                      THEN FilteredResults(request.matches, request.k, score_threshold)
                      ELSE <<>>
       IN  IF NoResults(results)
           THEN /\ search_results' = <<>>
                /\ original_answer' = FALLBACK_MESSAGE
                /\ is_fallback' = TRUE
                /\ stage' = "returned"
                /\ UNCHANGED llm_calls
           ELSE /\ search_results' = results
                /\ llm_calls' = llm_calls + 1
                /\ stage' = "generating"
                /\ UNCHANGED << original_answer, is_fallback >>
    /\ UNCHANGED << cacheVars, connVars, request, content, is_fallback_like, displayed_answer,
                    branch, alerts, sheet_rows >>

\* run_query from the model's answer on
Generate(text) ==
    /\ stage = "generating"
    /\ content' = text
    /\ is_fallback' = is_fallback_response(text)
    /\ original_answer' = RunQueryAnswer(is_fallback_response(text), text)
    /\ stage' = "returned"
    /\ UNCHANGED << cacheVars, connVars, request, search_results, is_fallback_like,
                    displayed_answer, branch, alerts, sheet_rows, llm_calls >>

\* chain.invoke raises: run_query does not catch it, process_query's caller
\* prints the error and chat_with_bot answers with status 500
GenerateRaises ==
    /\ stage = "generating"
    /\ stage' = "error"
    /\ UNCHANGED << cacheVars, connVars, request, search_results, content, original_answer,
                    is_fallback, is_fallback_like, displayed_answer, branch, alerts,
                    sheet_rows, llm_calls >>

\* process_query / chat_with_bot after run_query returned: the answer to
\* display, then the alert and the row of the arm taken; slack_success is
\* what send_fallback_alert returns
Respond(slack_success) ==
    /\ stage = "returned"
    /\ LET like == is_fallback_like_response(original_answer)
           shown == DisplayedAnswer(request.entry, is_fallback, original_answer)
           arm == Branch(is_fallback, like)
       IN  /\ is_fallback_like' = like
           /\ displayed_answer' = shown
           /\ branch' = arm
           /\ IF arm = "normal"
              THEN /\ alerts' = alerts
                   /\ ~slack_success
                   /\ sheet_rows' = Append(sheet_rows,
                          [ fallback_type |-> "none", answer |-> shown,
                            slack_sent |-> FALSE ])
              ELSE /\ alerts' = Append(alerts,
                          [ fallback_type |-> arm, gpt_response |-> original_answer,
                            displayed_answer |-> shown ])
                   /\ sheet_rows' = Append(sheet_rows,
                          [ fallback_type |-> SheetType(arm), answer |-> shown,
                            slack_sent |-> slack_success ])
    /\ stage' = "done"
    /\ UNCHANGED << cacheVars, connVars, request, search_results, content, original_answer,
                    is_fallback, llm_calls >>

NextPipeline ==
    \/ \E outcome \in { "matches", "raises" } : Search(outcome)
    \/ \E text \in Texts : Generate(text)
    \/ GenerateRaises
    \/ \E slack_success \in BOOLEAN : Respond(slack_success)

SpecPipeline == InitPipeline /\ [][NextPipeline]_vars

\* ---- the two detectors alone, each called with a text
InitGuard ==
    /\ NoCache
    /\ NoRequest
    /\ NoConnections

Guard(text) ==
    /\ stage = "none"
    /\ content' = text
    /\ is_fallback_like' = is_fallback_like_response(text)
    /\ is_fallback' = is_fallback_response(text)
    /\ stage' = "guarded"
    /\ UNCHANGED << cacheVars, connVars, request, search_results, original_answer,
                    displayed_answer, branch, alerts, sheet_rows, llm_calls >>

NextGuard == \E text \in Texts : Guard(text)

SpecGuard == InitGuard /\ [][NextGuard]_vars
\* ------------------------------------------------------------------ claims
\* a step that is one call of `op` on the local cache
IsCall(op) == steps' = steps + 1 /\ ret'.op = op
RetKey == L1Key(ret'.question, ret'.category, ret'.section)
Expired(obj, k, t) == t - Lookup(obj.cache, k).created_at > obj.ttl_seconds

\* C1: in every reachable state, for any configured max_size, the cache
\* holds at most max_size entries.
C1_SizeAtMostMaxSize == Len(l1_cache.cache) <= l1_cache.max_size

\* the same bound for the configurations with max_size >= 1
SizeAtMostMaxSizeIfPositive ==
    l1_cache.max_size >= 1 => Len(l1_cache.cache) <= l1_cache.max_size

\* C2: get never returns an entry whose age (the time of the call minus
\* created_at) is greater than ttl; a get that finds such an entry removes
\* it from the cache and returns absent.  A get that returns a value
\* returns the (answer, is_fallback) of the entry it found.
C2_GetNeverReturnsExpired ==
    [][ IsCall("get") =>
          /\ ret'.found =>
               /\ HasKey(l1_cache.cache, RetKey)
               /\ now - Lookup(l1_cache.cache, RetKey).created_at <= l1_cache.ttl_seconds
               /\ ret'.answer = Lookup(l1_cache.cache, RetKey).answer
               /\ ret'.is_fallback = Lookup(l1_cache.cache, RetKey).is_fallback
          /\ (HasKey(l1_cache.cache, RetKey) /\ Expired(l1_cache, RetKey, now)) =>
               /\ ~ret'.found
               /\ ~HasKey(l1_cache'.cache, RetKey)
               /\ ~HasKey(l1_cache'.access_times, RetKey)
      ]_vars

\* a get, the second call, found the entry the first call stored expired
C2_Witness ==
    /\ steps = 2
    /\ ret.op = "get"
    /\ ~ret.found
    /\ l1_cache.stats.expired_removals = 1
    /\ l1_cache.cache = <<>>

\* no entry of the cache is expired at time t
NoneExpired(obj, t) ==
    \A i \in 1..Len(obj.cache) : t - obj.cache[i].created_at <= obj.ttl_seconds

\* a set of a new key into a cache that holds max_size non-expired entries
\* (now' is the clock reading of the sweep of expired entries)
SetOfNewKeyAtCapacity ==
    /\ IsCall("set")
    /\ ~HasKey(l1_cache.cache, RetKey)
    /\ Len(l1_cache.cache) = l1_cache.max_size
    /\ NoneExpired(l1_cache, now')

\* the call evicts exactly the entry at place i of the recency index
EvictsOnly(i) ==
    LET victim == l1_cache.access_times[i].key
    IN  /\ KeysOf(l1_cache'.cache) = (KeysOf(l1_cache.cache) \ {victim}) \cup {RetKey}
        /\ Len(l1_cache'.cache) = Len(l1_cache.cache)
        /\ l1_cache'.stats.evictions = l1_cache.stats.evictions + 1
        /\ \A k \in KeysOf(l1_cache.cache) \ {victim} :
             Lookup(l1_cache'.cache, k) = Lookup(l1_cache.cache, k)

\* place i holds the oldest last access, the earliest inserted among equals
OldestAccess(i) ==
    LET at == l1_cache.access_times
    IN  /\ \A j \in 1..Len(at) : at[j].t >= at[i].t
        /\ \A j \in 1..(i - 1) : at[j].t > at[i].t

\* the recorded last access of every stored key is the time of the latest
\* set or successful get of that key
LastAccessRecorded ==
    steps' = steps + 1 =>
      \A k \in KeysOf(l1_cache'.cache) :
        /\ HasKey(l1_cache'.access_times, k)
        /\ Lookup(l1_cache'.access_times, k).t =
             IF ret'.op = "set" /\ k = RetKey THEN now
             ELSE IF ret'.op = "get" /\ ret'.found /\ k = RetKey THEN now'
             ELSE Lookup(l1_cache.access_times, k).t

EvictionRule ==
    /\ LastAccessRecorded
    /\ SetOfNewKeyAtCapacity =>
         \E i \in 1..Len(l1_cache.access_times) : OldestAccess(i) /\ EvictsOnly(i)

\* the state after set k1, set k2, get k1 on a cache of max_size 2: three
\* calls, one of them a get that hit; k1 is the key inserted first and,
\* moved by its get, the last of the ordered map
AfterSetSetGet ==
    /\ l1_cache.max_size = 2
    /\ steps = 3
    /\ Len(l1_cache.cache) = 2
    /\ Len(l1_cache.access_times) = 2
    /\ l1_cache.stats.hits = 1
    /\ l1_cache.stats.total_requests = 1
    /\ l1_cache.access_times[1].key = l1_cache.cache[2].key
    /\ l1_cache.access_times[2].key = l1_cache.cache[1].key

\* ... and then set k3 evicts k2 and keeps k1
ExampleEvictsK2 ==
    (AfterSetSetGet /\ SetOfNewKeyAtCapacity) =>
        KeysOf(l1_cache'.cache) = { l1_cache.access_times[1].key, RetKey }

\* C3: a set of a new key into a cache that holds max_size non-expired
\* entries evicts exactly one entry, the one whose last access (the later of
\* its last set and its last successful get) is the oldest, ties broken by
\* insertion order; in particular with max_size = 2 the sequence set k1,
\* set k2, get k1, set k3 evicts k2 and keeps k1.
C3_LruEviction == [][ EvictionRule /\ ExampleEvictsK2 ]_vars

\* the rule of C3 without its example
C3_EvictsOldestAccess == [][ EvictionRule ]_vars

\* the example of C3 when the clock advanced between set k2 and get k1
C3_ExampleIfClockAdvanced ==
    [][ (AfterSetSetGet /\ l1_cache.access_times[1].t > l1_cache.access_times[2].t)
          => ExampleEvictsK2 ]_vars

\* a full cache of two entries that were last accessed at the same time
C3_TieReached ==
    /\ AfterSetSetGet
    /\ l1_cache.access_times[1].t = l1_cache.access_times[2].t

\* ---- the writers
DistinctKeys ==
    \A t1, t2 \in Threads : t1 # t2 => KeyOfCall(arg[t1]) # KeyOfCall(arg[t2])
NotExpiring == l1_cache.ttl_seconds >= EndTime - StartTime
GetOf(t) == GetValue(l1_cache, arg[t].question, arg[t].category, arg[t].section, now)
ValueOfCall(c) == Found(c.answer, c.is_fallback)

\* C4: N threads set N distinct keys of a cache with max_size >= N whose
\* entries do not expire: in every interleaving every call completes (no
\* thread that has not called yet is ever blocked) and afterwards get
\* returns, for each of the N keys, the value that was set for it.
C4_NoLostUpdate ==
    (DistinctKeys /\ l1_cache.max_size >= NWriters /\ NotExpiring) =>
        /\ \A t \in Threads : pc[t] = "ready" => ENABLED WriterSet(t)
        /\ AllDone => \A t \in Threads : GetOf(t) = ValueOfCall(arg[t])
        /\ (AllDone /\ ret.op = "get") =>
             \E t \in Threads : /\ KeyOfCall(arg[t]) = KeyOfCall(ret)
                                /\ ret.found
                                /\ ret.answer = arg[t].answer
                                /\ ret.is_fallback = arg[t].is_fallback

\* the last thread, in the order the lock was taken, whose set stored key k
RECURSIVE LastSetter(_, _)
LastSetter(seq, k) ==
    IF KeyOfCall(arg[seq[Len(seq)]]) = k THEN seq[Len(seq)]
    ELSE LastSetter(SubSeq(seq, 1, Len(seq) - 1), k)

\* C5: once all concurrent set calls have completed, the stored entry of a
\* key has the (answer, is_fallback) of one call, the last of the calls for
\* that key to take the lock, never fields of two calls; get returns that
\* pair.
C5_LastSetWins ==
    AllDone =>
      /\ \A t \in Threads :
           LET k == KeyOfCall(arg[t])
               w == LastSetter(order, k)
           IN  HasKey(l1_cache.cache, k) =>
                 /\ Lookup(l1_cache.cache, k).answer = arg[w].answer
                 /\ Lookup(l1_cache.cache, k).is_fallback = arg[w].is_fallback
      /\ (ret.op = "get" /\ ret.found) =>
           LET w == LastSetter(order, KeyOfCall(ret))
           IN  ret.answer = arg[w].answer /\ ret.is_fallback = arg[w].is_fallback

\* two threads have set the same key with different answers and flags, the
\* entry is stored, and a get has returned it
C5_Witness ==
    /\ AllDone
    /\ \E t1, t2 \in Threads :
         /\ t1 # t2
         /\ KeyOfCall(arg[t1]) = KeyOfCall(arg[t2])
         /\ arg[t1].answer # arg[t2].answer
         /\ arg[t1].is_fallback # arg[t2].is_fallback
         /\ HasKey(l1_cache.cache, KeyOfCall(arg[t1]))
         /\ ret.op = "get" /\ ret.found /\ KeyOfCall(ret) = KeyOfCall(arg[t1])

\* ------------------------------------------------- claims on the manager
Reader == "reader"
Writer == "writer"
L1ValueOf(obj, r, t) == GetValue(obj, r.question, r.category, r.section, t)
\* L1 holds an entry for r's key that get does not find expired at time t
L1Fresh(obj, r, t) == L1ValueOf(obj, r, t).found
\* what Redis holds for the key of the call task t is in
DataFor(t) == RedisGet(redis, L2Key(arg[t].question, arg[t].category, arg[t].section), now)
Returned(t, op) == pc'[t] = "idle" /\ ret'.op = op
ReturnedValue(t, value) ==
    /\ Returned(t, "mgr.get")
    /\ ret'.found = value.found
    /\ ret'.answer = value.answer
    /\ ret'.is_fallback = value.is_fallback
StatsSame(fields) == \A f \in fields : mgr'.stats[f] = mgr.stats[f]
StatUp(f) == mgr'.stats[f] = mgr.stats[f] + 1
\* the step sends no command to Redis: no task comes to wait for one
NoCommandIssued ==
    \A t \in Tasks : pc'[t] # "idle" => pc'[t] = pc[t]

\* C6: a get of the manager that finds a non-expired entry for the key in L1
\* returns that entry at once and counts an L1 hit; it sends no ping and no
\* read to Redis, and does not touch the health check's state.
C6_L1First ==
    [][ \A r \in OrchRequests :
          (MgrGetStart(Reader, r) /\ L1Fresh(l1_cache, r, now)) =>
            /\ ReturnedValue(Reader, L1ValueOf(l1_cache, r, now))
            /\ StatUp("l1_hits")
            /\ StatsSame({ "l2_hits", "misses", "errors" })
            /\ NoCommandIssued
            /\ mgr'.last_health_check = mgr.last_health_check
            /\ mgr'.redis_healthy = mgr.redis_healthy
            /\ redis' = redis ]_vars

\* an L1 hit was returned at a time when the health check was due
C6_Witness ==
    /\ ret.op = "mgr.get"
    /\ ret.found
    /\ mgr.stats.l1_hits = 1
    /\ mgr.stats.l2_hits = 0
    /\ mgr.redis_client
    /\ HealthCheckDue(mgr, now)

\* a step of get in which Redis answers the read with bytes for the key that
\* get can decode
ReadsValue == MgrGetRead(Reader, "reply") /\ DataFor(Reader).kind # "none"
                /\ Decodable(mgr, DataFor(Reader))
\* a get that misses L1 while the tier counts as healthy and no check is due
MissesL1Healthy(r) ==
    /\ MgrGetStart(Reader, r)
    /\ ~L1Fresh(l1_cache, r, now)
    /\ mgr.redis_healthy
    /\ ~HealthCheckDue(mgr, now)

\* C7: a get that misses L1 while L2 is healthy (by the flag, or by a ping
\* that is answered) reads L2; when L2 answers with a value for the key, get
\* returns that value, counts an L2 hit and has stored the value in L1, so
\* that a get of L1 at the time of return finds the same (answer, is_fallback).
C7_Promotion ==
    [][ /\ \A r \in OrchRequests : MissesL1Healthy(r) => pc'[Reader] = "get_read"
        /\ MgrGetPing(Reader, TRUE) => pc'[Reader] = "get_read"
        /\ ReadsValue =>
             LET value == Found(DataFor(Reader).answer, DataFor(Reader).is_fallback)
             IN  /\ ReturnedValue(Reader, value)
                 /\ StatUp("l2_hits")
                 /\ StatsSame({ "l1_hits", "misses", "errors" })
                 /\ L1ValueOf(l1_cache', arg[Reader], now') = value ]_vars

\* the only call so far is a get; it returned the value another process had
\* stored in Redis, and L1 now holds it
C7_Witness ==
    /\ steps = 1
    /\ ret.op = "mgr.get"
    /\ ret.found
    /\ ret.answer = SeedValue.answer
    /\ mgr.stats.l2_hits = 1
    /\ \E r \in OrchRequests :
         L1ValueOf(l1_cache, r, now) = Found(SeedValue.answer, SeedValue.is_fallback)

\* a step before and after which the tier is unhealthy: no probe succeeds
StaysUnhealthy == ~mgr.redis_healthy /\ ~mgr'.redis_healthy
\* what the calls that run into an unhealthy tier do: set stores in L1 and
\* returns True, get returns what L1 has, each at once or after a ping that
\* is not answered
DegradedCalls ==
    /\ \A c \in OrchCalls :
         MgrSetStart(Writer, c) =>
           /\ L1ValueOf(l1_cache', c, now') = Found(c.answer, c.is_fallback)
           /\ pc'[Writer] \in { "idle", "set_ping" }
           /\ pc'[Writer] = "idle" => (Returned(Writer, "mgr.set") /\ ret'.ok)
    /\ MgrSetPing(Writer, FALSE) =>
         /\ Returned(Writer, "mgr.set")
         /\ ret'.ok
         /\ l1_cache' = l1_cache
    /\ \A r \in OrchRequests :
         MgrGetStart(Reader, r) =>
           /\ pc'[Reader] \in { "idle", "get_ping" }
           /\ pc'[Reader] = "idle" =>
                ReturnedValue(Reader, L1ValueOf(l1_cache, r, now))
    /\ MgrGetPing(Reader, FALSE) => ReturnedValue(Reader, Absent)

\* the step sends no read and no write to Redis
NoReadOrWriteIssued ==
    \A t \in Tasks : pc'[t] \in { "get_read", "set_write" } => pc'[t] = pc[t]

\* C8: in every step before and after which redis_healthy is false, set
\* returns success with the value in L1, get returns the L1 value or absent,
\* no read and no write is sent to Redis and l2_hits stays as it is.
C8_Degradation ==
    [][ StaysUnhealthy =>
          /\ DegradedCalls
          /\ NoReadOrWriteIssued
          /\ StatsSame({ "l2_hits" }) ]_vars

\* C8, amended: in every step before and after which redis_healthy is false,
\* set returns success with the value in L1, a get that starts or whose ping
\* fails returns the L1 value or absent, and no read and no write is sent
\* to Redis; l2_hits moves only when a read of L2 that was sent while the
\* tier was healthy is answered.
C8_DegradationOfNewCalls ==
    [][ /\ StaysUnhealthy =>
             /\ DegradedCalls
             /\ NoReadOrWriteIssued
             /\ ~StatsSame({ "l2_hits" }) => (pc[Reader] = "get_read" /\ ReadsValue)
        /\ \A t \in Tasks :
             (pc'[t] \in { "get_read", "set_write" } /\ pc[t] # pc'[t]) =>
               mgr'.redis_healthy ]_vars

\* with a client whose pings were not answered, a set and then a get were
\* served by L1 alone: Redis holds nothing and no error was counted
C8_Witness ==
    /\ steps = 2
    /\ mgr.redis_client
    /\ ~mgr.redis_healthy
    /\ mgr.last_health_check > 0
    /\ ret.op = "mgr.get"
    /\ ret.found
    /\ mgr.stats.l1_hits = 1
    /\ mgr.stats.l2_hits = 0
    /\ mgr.stats.errors = 0
    /\ \A k \in OrchKeys : redis.data[k].kind = "none"
    /\ \A t \in Tasks : pc[t] = "idle"

\* a step of set in which the write to Redis fails
WriteFails(outcome) == \E applied \in BOOLEAN : MgrSetWrite(Writer, outcome, applied)

\* C9: set stores the value in L1 before it turns to Redis; when the write
\* to Redis times out or raises, set returns True, leaves L1 as it is and
\* adds one to errors; when the tier is unhealthy set returns True with L1
\* as it is and errors as it is.
C9_SetSucceeds ==
    [][ /\ \A c \in OrchCalls :
             MgrSetStart(Writer, c) =>
               /\ L1ValueOf(l1_cache', c, now') = Found(c.answer, c.is_fallback)
               /\ redis' = redis
               /\ StatsSame({ "errors" })
               /\ pc'[Writer] = "idle" => (Returned(Writer, "mgr.set") /\ ret'.ok)
        /\ \A outcome \in { "timeout", "error" } :
             WriteFails(outcome) =>
               /\ Returned(Writer, "mgr.set")
               /\ ret'.ok
               /\ l1_cache' = l1_cache
               /\ StatUp("errors")
        /\ (MgrSetPing(Writer, FALSE) \/ WriteFails("ok")) =>
             /\ Returned(Writer, "mgr.set")
             /\ ret'.ok
             /\ l1_cache' = l1_cache
             /\ StatsSame({ "errors" }) ]_vars

\* the only call so far is a set whose write to Redis failed: it returned
\* True, one error is counted and L1 holds the value
C9_Witness ==
    /\ steps = 1
    /\ ret.op = "mgr.set"
    /\ ret.ok
    /\ mgr.stats.errors = 1
    /\ \E r \in OrchRequests :
         L1ValueOf(l1_cache, r, now) = Found(ret.answer, ret.is_fallback)

\* a step of get in which the read of L2 fails: by a timeout, by an
\* exception of the client, or by bytes that get cannot decode
ReadFails ==
    \/ MgrGetRead(Reader, "timeout")
    \/ MgrGetRead(Reader, "error")
    \/ /\ MgrGetRead(Reader, "reply")
       /\ DataFor(Reader).kind # "none"
       /\ ~Decodable(mgr, DataFor(Reader))

ProbeAwaits == { "get_ping", "set_ping" }
ProbeInFlight(t) == pc[t] \in ProbeAwaits
\* task t sends a probe in this step
ProbeStarts(t) == pc'[t] \in ProbeAwaits /\ pc[t] \notin ProbeAwaits
\* a call of get or set starts in this step
CallStarts == steps' = steps + 1

\* C11: a probe is sent only when health_check_interval has passed since
\* last_health_check, which every probe sets to its starting time and which
\* never goes back: two probes start at least the interval apart.  No two
\* probes are in flight together.  A call that starts within the interval
\* sends no probe and leaves the flag and the timestamp as they are.
C11_ProbeOncePerInterval ==
    [][ /\ \A t \in Tasks :
             ProbeStarts(t) =>
               /\ now' - mgr.last_health_check >= health_check_interval
               /\ mgr'.last_health_check = now'
               /\ \A u \in Tasks \ {t} : ~ProbeInFlight(u)
        /\ mgr'.last_health_check >= mgr.last_health_check
        /\ Cardinality({ t \in Tasks : pc'[t] \in ProbeAwaits }) <= 1
        /\ (CallStarts /\ now' - mgr.last_health_check < health_check_interval) =>
             /\ \A t \in Tasks : ~ProbeStarts(t)
             /\ mgr'.last_health_check = mgr.last_health_check
             /\ mgr'.redis_healthy = mgr.redis_healthy ]_vars

\* while the get's probe, the first, is in flight, a set has started and
\* returned without a probe of its own
C11_Witness ==
    /\ pc[Reader] = "get_ping"
    /\ mgr.last_health_check = StartTime
    /\ steps = 2
    /\ ret.op = "mgr.set"

\* a second probe is in flight, one interval after the first
C11_SecondProbe ==
    /\ \E t \in Tasks : ProbeInFlight(t)
    /\ mgr.last_health_check >= StartTime + health_check_interval
    /\ steps = 2

\* ---- initialize
Startup == "startup"
\* a step in which initialize() ends without a connection: the redis library
\* is missing, the client could not be built, or its ping was not answered
InitializeFails ==
    \/ \E outcome \in { "no_library", "failed" } : InitializeStart(Startup, outcome)
    \/ InitializePing(Startup, FALSE)
\* a call that starts in this step sends no read and no write to Redis
NewCallsStayLocal ==
    \A t \in { Reader, Writer } :
        pc[t] = "idle" => pc'[t] \notin { "get_read", "set_write" }

\* C12: initialize() returns True whether or not its ping is answered; when
\* it ends without a connection (library missing, client not built, ping
\* not answered) the tier is unhealthy at its return, and from then on, while
\* no probe is answered, every get and set is served by L1 alone.
C12_InitializeAlwaysSucceeds ==
    [][ /\ Returned(Startup, "initialize") => (ret'.ok /\ mgr'.initialized)
        /\ InitializePing(Startup, TRUE) =>
             (Returned(Startup, "initialize") /\ mgr'.redis_healthy)
        /\ InitializeFails =>
             /\ Returned(Startup, "initialize")
             /\ ret'.ok
             /\ mgr'.initialized
             /\ ~mgr'.redis_healthy
        /\ (mgr.initialized /\ StaysUnhealthy) =>
             /\ DegradedCalls
             /\ NewCallsStayLocal ]_vars

\* initialize() ended without a client, and then a set and a get were served
\* by L1 alone
C12_Witness ==
    /\ mgr.initialized
    /\ ~mgr.redis_client
    /\ ~mgr.redis_healthy
    /\ steps = 2
    /\ ret.op = "mgr.get"
    /\ ret.found
    /\ mgr.stats.l1_hits = 1
    /\ \A t \in Tasks : pc[t] = "idle"

\* initialize() returned after its ping was not answered
C12_PingUnanswered ==
    /\ ret.op = "initialize"
    /\ ret.ok
    /\ mgr.redis_client
    /\ mgr.initialized
    /\ ~mgr.redis_healthy

\* ---- claims on the pipeline
\* the text is some text, the phrase, and some text
Occurs(phrase, text) ==
    \E before, after \in 0..Len(text) :
        /\ before + Len(phrase) + after = Len(text)
        /\ \A i \in 1..Len(phrase) : text[before + i] = phrase[i]
OccursAny(phrases, text) == \E phrase \in Range(phrases) : Occurs(phrase, text)

\* the places of the index's matches whose score is at or above the floor
AtOrAbove == { i \in 1..Len(request.matches) : request.matches[i] >= score_threshold }
\* the step in which the search of run_query comes back
SearchReturns == stage = "received" /\ stage' # "received"
Done == stage = "done"

\* C13: when the search of run_query returns zero passages, run_query
\* returns the fixed fallback message with is_fallback true, the language
\* model is not invoked then or later in the request, and the request ends
\* in the fallback arm.
C13_NoResultsNoModel ==
    [][ /\ (SearchReturns /\ (AtOrAbove = {} \/ Search("raises"))) =>
             /\ stage' = "returned"
             /\ search_results' = <<>>
             /\ original_answer' = FALLBACK_MESSAGE
             /\ is_fallback'
             /\ llm_calls' = llm_calls
        /\ (stage # "received" /\ search_results = <<>>) =>
             /\ llm_calls' = 0
             /\ content' = NoText
             /\ stage' = "done" =>
                  /\ branch' = "fallback"
                  /\ displayed_answer' = FALLBACK_MESSAGE ]_vars

\* a request whose index held no match ended in the fallback arm without a
\* call of the model
C13_Witness ==
    /\ Done
    /\ request.matches = <<>>
    /\ search_results = <<>>
    /\ llm_calls = 0
    /\ branch = "fallback"
    /\ displayed_answer = FALLBACK_MESSAGE

\* C14: at the end of every request, is_fallback is true exactly when the
\* search returned nothing or the model's text contains a phrase of the
\* fallback list; if it is true the answer shown is the fixed fallback
\* message, whatever the model wrote; if it is false the answer shown is the
\* model's text unchanged.
C14_FallbackReplacesAnswer ==
    Done =>
      /\ is_fallback = (search_results = <<>> \/ OccursAny(fallback_keywords, content))
      /\ is_fallback => displayed_answer = FALLBACK_MESSAGE
      /\ ~is_fallback =>
           /\ content \in Texts
           /\ llm_calls = 1
           /\ displayed_answer = content

\* the model's text held a fallback phrase among other text and the fixed
\* message was shown in its place
C14_Witness ==
    /\ Done
    /\ search_results # <<>>
    /\ is_fallback
    /\ content # FALLBACK_MESSAGE
    /\ Len(content) > 2
    /\ displayed_answer = FALLBACK_MESSAGE

\* the model's text held no fallback phrase and was shown as it is
C14_ShownUnchanged ==
    /\ Done
    /\ ~is_fallback
    /\ displayed_answer = content
    /\ Len(content) > 0

\* the verdict of a finished request, by the arm that ran
Verdict ==
    CASE branch = "fallback" -> "FALLBACK"
      [] branch = "fallback-like" -> "FALLBACK_LIKE"
      [] branch = "normal" -> "NONE"
      [] OTHER -> "undecided"
AlertTypes == { alerts[i].fallback_type : i \in 1..Len(alerts) }

\* C15: every request that is answered ends in exactly one of NONE,
\* FALLBACK, FALLBACK_LIKE: FALLBACK when the search returned nothing or
\* the model's text holds a fallback phrase; otherwise FALLBACK_LIKE when the
\* answer holds a fallback-like phrase; otherwise NONE.  Under FALLBACK_LIKE
\* the answer shown is the model's text and one alert and one sheet row of
\* type fallback-like are issued; under NONE no alert is issued.
C15_VerdictPrecedence ==
    Done =>
      /\ Verdict \in { "NONE", "FALLBACK", "FALLBACK_LIKE" }
      /\ Verdict = "FALLBACK" <=>
           (search_results = <<>> \/ OccursAny(fallback_keywords, content))
      /\ Verdict = "FALLBACK_LIKE" <=>
           /\ search_results # <<>>
           /\ ~OccursAny(fallback_keywords, content)
           /\ OccursAny(FALLBACK_INDICATORS, content)
      /\ Len(alerts) <= 1
      /\ Len(sheet_rows) = 1
      /\ Verdict = "FALLBACK_LIKE" =>
           /\ displayed_answer = content
           /\ original_answer = content
           /\ alerts = << [ fallback_type |-> "fallback-like",
                            gpt_response |-> content,
                            displayed_answer |-> content ] >>
           /\ sheet_rows[1].fallback_type = "FALLBACK_LIKE"
           /\ sheet_rows[1].answer = content
      /\ Verdict = "FALLBACK" =>
           /\ AlertTypes = { "fallback" }
           /\ sheet_rows[1].fallback_type = "LOW_SIMILARITY"
      /\ Verdict = "NONE" =>
           /\ alerts = <<>>
           /\ sheet_rows[1].fallback_type = "none"
           /\ displayed_answer = content

\* a request ended FALLBACK_LIKE: results were found, the model's text held
\* a fallback-like phrase and no fallback phrase, and it was shown
C15_Witness ==
    /\ Done
    /\ branch = "fallback-like"
    /\ is_fallback_like
    /\ ~is_fallback
    /\ displayed_answer = content
    /\ Len(alerts) = 1

\* a request ended NONE, and one ended FALLBACK on the model's text
C15_NoneReached == Done /\ branch = "normal" /\ alerts = <<>>
C15_FallbackOnText == Done /\ branch = "fallback" /\ search_results # <<>>

\* ---- claims on the detectors
Guarded == stage = "guarded"

C16_NoPhrase ==
    /\ Guarded
    /\ ~is_fallback_like
    /\ ~is_fallback
    /\ content = << "stated ", "there is none" >>

\* the third answer of fallback_cases in test_fallback_like_responses: only
\* a phrase of fallback_keywords occurs in it
C16_ThirdTestAnswer ==
    /\ Guarded
    /\ content = << "that information provided ", "and is not, ", "in the document too ",
                    "can confirm ", "there is none", "." >>
    /\ ~is_fallback_like
    /\ is_fallback

\* ---- claims on retrieval
\* the place in the index's matches of the j-th one at or above the floor
NthAtOrAbove(j) ==
    CHOOSE i \in AtOrAbove : Cardinality({ x \in AtOrAbove : x < i }) = j - 1
\* the smaller of two numbers
Smaller(a, b) == IF a < b THEN a ELSE b

\* C17: when the index answers, the results of the search are the matches
\* whose score is greater than or equal to score_threshold, in the index's
\* order, up to k of them; matches below the threshold are discarded before
\* run_query tests for no results, so a search whose matches are all below
\* the threshold gives FALLBACK without a call of the model, and one with a
\* match at or above it goes on to the model.
C17_SimilarityFloor ==
    [][ (SearchReturns /\ Search("matches")) =>
          /\ Len(search_results') = Smaller(Cardinality(AtOrAbove), request.k)
          /\ \A j \in 1..Len(search_results') :
               /\ search_results'[j] = request.matches[NthAtOrAbove(j)]
               /\ search_results'[j] >= score_threshold
          /\ (search_results' # <<>>) <=>
               (\E i \in 1..Len(request.matches) : request.matches[i] >= score_threshold)
          /\ AtOrAbove = {} =>
               /\ stage' = "returned"
               /\ is_fallback'
               /\ original_answer' = FALLBACK_MESSAGE
               /\ llm_calls' = llm_calls
          /\ AtOrAbove # {} =>
               /\ stage' = "generating"
               /\ llm_calls' = llm_calls + 1 ]_vars

\* the index answered with matches, all below the threshold, and the
\* request ended FALLBACK without a call of the model
C17_Witness ==
    /\ Done
    /\ Len(request.matches) > 1
    /\ \A i \in 1..Len(request.matches) : request.matches[i] < score_threshold
    /\ search_results = <<>>
    /\ branch = "fallback"
    /\ llm_calls = 0

\* a match whose score equals the threshold was kept, one below it dropped
C17_AtThresholdKept ==
    /\ stage = "generating"
    /\ request.matches = << score_threshold - 1, score_threshold >>
    /\ search_results = << score_threshold >>

\* ---- claims on the keys of the local cache
\* two characters that are the same letter
SameLetter(c1, c2) == c1 = c2 \/ { c1, c2 } \in { { "a", "A" }, { "b", "B" } }
\* q1 and q2 differ only in letter case and in whitespace before and after:
\* without i1 and i2 leading and j1 and j2 trailing whitespace characters
\* they are letter for letter the same
DifferOnlyInCaseAndMargins(q1, q2) ==
    \E i1 \in 0..Len(q1), i2 \in 0..Len(q2) :
      \E j1 \in 0..(Len(q1) - i1) :
        LET core == Len(q1) - i1 - j1
            j2 == Len(q2) - i2 - core
        IN  /\ j2 >= 0
            /\ \A x \in 1..i1 : IsSpace(q1[x])
            /\ \A x \in 1..j1 : IsSpace(q1[Len(q1) + 1 - x])
            /\ \A x \in 1..i2 : IsSpace(q2[x])
            /\ \A x \in 1..j2 : IsSpace(q2[Len(q2) + 1 - x])
            /\ \A x \in 1..core : SameLetter(q1[i1 + x], q2[i2 + x])
SameFilters(r1, r2) == r1.category = r2.category /\ r1.section = r2.section
KeyOf(r) == L1Key(r.question, r.category, r.section)
\* the last call was a set and this step is a get
GetAfterSet == ret.op = "set" /\ IsCall("get")

\* C18: the key of a question q equals the key of q.lower().strip() for
\* every category and section; and a get that follows a set whose question
\* differs from its own only in letter case and in leading and trailing
\* whitespace, with the same category and section, returns what was set.
C18_KeyNormalization ==
    [][ /\ (IsCall("get") \/ IsCall("set")) =>
             /\ RetKey = L1Key(Strip(Lower(ret'.question)), ret'.category, ret'.section)
             /\ \A r \in KeyRequests :
                  (SameFilters(ret', r)
                     /\ DifferOnlyInCaseAndMargins(ret'.question, r.question))
                    => RetKey = KeyOf(r)
        /\ (GetAfterSet /\ SameFilters(ret, ret')
              /\ DifferOnlyInCaseAndMargins(ret.question, ret'.question)) =>
             /\ ret'.found
             /\ ret'.answer = ret.answer
             /\ ret'.is_fallback = ret.is_fallback ]_vars

\* a set of " A\n" was followed by a get of "a" that hit
C18_Witness ==
    /\ steps = 2
    /\ ret.op = "get"
    /\ ret.found
    /\ ret.question = <<"a">>
    /\ l1_cache.stats.hits = 1
    /\ \E i \in 1..Len(l1_cache.cache) :
         l1_cache.cache[i].key = L1Key(<<" ", "A", "\n">>, ret.category, ret.section)

\* the same question under another combination of category and section
OtherCombination(r1, r2) ==
    /\ Strip(Lower(r1.question)) = Strip(Lower(r2.question))
    /\ ~SameFilters(r1, r2)

CountersUp(fields) ==
    \A f \in DOMAIN l1_cache.stats :
        l1_cache'.stats[f] = l1_cache.stats[f] + (IF f \in fields THEN 1 ELSE 0)

\* C20: a get that finds an expired entry returns absent, removes that entry
\* and no other from the map and from the recency index, and adds one to
\* total_requests, misses and expired_removals, leaving hits and evictions;
\* a get of a key that is not stored returns absent, adds one to
\* total_requests and misses only, and leaves the stored entries.
C20_GetCounterFrame ==
    [][ IsCall("get") =>
          /\ (HasKey(l1_cache.cache, RetKey) /\ Expired(l1_cache, RetKey, now)) =>
               /\ ~ret'.found
               /\ l1_cache'.cache = RemoveKeys(l1_cache.cache, { RetKey })
               /\ l1_cache'.access_times = RemoveKeys(l1_cache.access_times, { RetKey })
               /\ Len(l1_cache'.cache) = Len(l1_cache.cache) - 1
               /\ CountersUp({ "total_requests", "misses", "expired_removals" })
          /\ ~HasKey(l1_cache.cache, RetKey) =>
               /\ ~ret'.found
               /\ l1_cache'.cache = l1_cache.cache
               /\ l1_cache'.access_times = l1_cache.access_times
               /\ CountersUp({ "total_requests", "misses" }) ]_vars

\* set, the clock passes the ttl, get: absent, the entry removed, one miss
\* and one expiry counted, while another entry stays
C20_Witness ==
    /\ ret.op = "get"
    /\ ~ret.found
    /\ l1_cache.stats.expired_removals = 1
    /\ l1_cache.stats.misses = 1
    /\ l1_cache.stats.total_requests = 1
    /\ l1_cache.stats.hits = 0
    /\ l1_cache.stats.evictions = 0
    /\ Len(l1_cache.cache) = 1
    /\ ~HasKey(l1_cache.cache, KeyOfCall(ret))

\* a get of a key that is not stored, beside a stored one
C20_AbsentKey ==
    /\ ret.op = "get"
    /\ ~ret.found
    /\ l1_cache.stats.expired_removals = 0
    /\ l1_cache.stats.misses = 1
    /\ l1_cache.stats.total_requests = 1
    /\ Len(l1_cache.cache) = 1

\* ---- claims on clear
\* C21: clear() removes every entry (the map and the recency index are empty
\* afterwards) and leaves hits, misses, total_requests, evictions and
\* expired_removals as they were; and while the cache is empty every get is
\* a miss and the cache stays empty until a set is called.
C21_ClearKeepsCounters ==
    [][ /\ IsCall("clear") =>
             /\ Len(l1_cache'.cache) = 0
             /\ l1_cache'.access_times = <<>>
             /\ l1_cache'.stats = l1_cache.stats
             /\ l1_cache'.max_size = l1_cache.max_size
             /\ l1_cache'.ttl_seconds = l1_cache.ttl_seconds
             /\ \A r \in CounterRequests : ~L1Fresh(l1_cache', r, now')
        /\ (Len(l1_cache.cache) = 0 /\ ~IsCall("set")) =>
             /\ Len(l1_cache'.cache) = 0
             /\ IsCall("get") => (~ret'.found /\ CountersUp({ "total_requests", "misses" }))
      ]_vars

\* a set, a get that hit, and then clear: no entry and the hit still counted
C21_Witness ==
    /\ ret.op = "clear"
    /\ steps = 3
    /\ Len(l1_cache.cache) = 0
    /\ l1_cache.stats.hits = 1
    /\ l1_cache.stats.total_requests = 1

\* a set, clear, and then a get of the key that was set: a miss that is not
\* an expiry
C21_MissAfterClear ==
    /\ ret.op = "get"
    /\ ~ret.found
    /\ steps = 3
    /\ now = StartTime
    /\ l1_cache.stats.misses = 1
    /\ l1_cache.stats.expired_removals = 0
    /\ Len(l1_cache.cache) = 0

\* ---- claims on construction
\* C22: no cache object with an invalid configuration exists: the maximum
\* size of every constructed cache is at least 1 and its time to live is
\* not negative.
C22_ConfigurationValid ==
    /\ l1_cache.max_size >= 1
    /\ l1_cache.ttl_seconds >= 0

\* ---- claims on exceptions of the local cache in the manager
\* a call of the manager's get or set whose call of the local cache raised
L1RaisedIn(op) == IsCall(op) /\ KeyRaises(ret'.question)

\* C23: an exception raised by the local cache during the manager's get or
\* set reaches the caller of the manager.
C23_L1ExceptionPropagates ==
    [][ (L1RaisedIn("mgr.get") \/ L1RaisedIn("mgr.set")) => ret'.raised ]_vars

\* the half the code keeps: from get the exception reaches the caller, and
\* no failure of Redis does
L1ExceptionPropagatesFromGet ==
    [][ /\ L1RaisedIn("mgr.get") => ret'.raised
        /\ (ret'.raised /\ ~ret.raised) => KeyRaises(ret'.question)
      ]_vars

\* ---- claims on pattern invalidation
\* the last call that returned is a clear_by_pattern that deleted the entry
\* of request r, and the writer has started nothing since
JustInvalidated(r) ==
    /\ ret.op = "mgr.clear_by_pattern"
    /\ ret.answer >= 1
    /\ GlobMatches(ret.question, L2Key(r.question, r.category, r.section))
    /\ pc[Writer] = "idle"

\* C24: once clear_by_pattern has removed the entry stored for a key, a get
\* of that key that starts before any set returns absent.
C24_InvalidatedIsAbsent ==
    [][ \A r \in OrchRequests :
          (JustInvalidated(r) /\ MgrGetStart(Reader, r) /\ Returned(Reader, "mgr.get"))
             => ~ret'.found ]_vars

\* a step in which clear_by_pattern returns
IsClearReturn == ret'.op = "mgr.clear_by_pattern" /\ ret' # ret

\* what the invalidation does destroy: the entry Redis held for the key
InvalidatedLeavesRedis ==
    [][ (IsClearReturn /\ ret'.answer >= 1) =>
           \A k \in OrchKeys : GlobMatches(ret'.question, k) =>
                                  RedisGet(redis', k, now').kind = "none" ]_vars

\* ---- claims on access counting
\* the access_count of the entry of request r, 0 when there is none
AccessCount(obj, r) ==
    IF HasKey(obj.cache, KeyOfCall(r))
    THEN Lookup(obj.cache, KeyOfCall(r)).access_count
    ELSE 0

\* C25: after set(k) followed by n successful get(k) the entry's
\* access_count is at least n; here n = 2: of three calls two were gets that
\* hit, so the third was the set of the key they asked for.
C25_AccessCountAtLeastGets ==
    (steps = 3 /\ l1_cache.stats.hits = 2 /\ ret.op = "get" /\ ret.found)
       => AccessCount(l1_cache, ret) >= 2

\* the same read step by step: a successful get adds one to the entry's
\* access_count
EveryGetCountsAccess ==
    [][ (IsCall("get") /\ ret'.found) =>
           AccessCount(l1_cache', ret') = AccessCount(l1_cache, ret') + 1 ]_vars

\* what the code keeps: a get never changes an entry's access_count, a set
\* of a key makes it 1, or one more than that of the entry it replaces
AccessCountCountsSets ==
    [][ /\ (IsCall("get") /\ ret'.found) =>
              AccessCount(l1_cache', ret') = AccessCount(l1_cache, ret')
        /\ IsCall("set") =>
              AccessCount(l1_cache', ret') \in { 1, AccessCount(l1_cache, ret') + 1 }
      ]_vars

\* ---- claims on worker threads
\* the value thread t has just set is what its get returns
ReturnsOwnValue(t) ==
    /\ ret'.found
    /\ ret'.answer = arg[t].answer
    /\ ret'.is_fallback = arg[t].is_fallback

C26_AbsentAfterEviction ==
    /\ ret.op = "get"
    /\ ~ret.found
    /\ l1_cache.stats.evictions >= 1
    /\ l1_cache.stats.expired_removals = 0

\* ---- claims on the connection manager
\* the threads whose ConnectionManager() has returned
Holders == { t \in Threads : pc[t] = "ready" }
\* a step of a construction: of __new__ or of __init__
ConstructionStep ==
    \E t \in Threads : \/ NewCheck(t) \/ NewAcquire(t) \/ NewCreate(t)
                       \/ InitCheck(t) \/ InitAcquire(t) \/ InitAssign(t) \/ InitDone(t)

\* C27: every construction returns the same instance, also when several
\* threads construct at once: one object is ever made, every holder holds
\* it, and it has its attributes when a construction returns; the
\* attributes are assigned once, and once they are assigned no step of a
\* construction changes them.
C27_Singleton ==
    [][ /\ connection_manager'.objects <= 1
        /\ \A t \in Threads :
             pc'[t] = "ready" =>
                /\ arg'[t].self = connection_manager'.instance
                /\ arg'[t].self = 1
                /\ connection_manager'.initialized
                /\ connection_manager'.attrs.assigned
        /\ (connection_manager.attrs.assigned /\ ConstructionStep) =>
                connection_manager'.attrs = connection_manager.attrs
        /\ connection_manager.initialized => connection_manager'.initialized
      ]_vars

\* every thread holds the manager, a service has been connected, and a
\* construction made after that has returned the same object
C27_Witness ==
    /\ Holders = Threads
    /\ ret.op = "ConnectionManager"
    /\ ret.instance = 1
    /\ connection_manager.attrs.handles["openai_llm"]
    /\ connection_manager.attrs.connection_status["openai_llm"] = "connected"

\* constructions racing: every thread has found _instance None outside the
\* lock, and one of them holds the lock
C27_Raced ==
    /\ \A t \in Threads : pc[t] \in { "new_lock", "new_locked" }
    /\ \E t \in Threads : pc[t] = "new_locked"

\* a step in which reset_connection is called
IsReset == steps' = steps + 1 /\ ret'.op = "reset_connection"

\* C28: reset_connection(name) returns false and changes nothing for every
\* name that is not one of the four services; for a service it returns
\* true and sets that service's handle to None, the other handles and the
\* connection status map staying as they are.
C28_ResetOnlyServices ==
    [][ IsReset =>
          IF ret'.service \in Services
          THEN /\ ret'.result
               /\ connection_manager' =
                    [connection_manager EXCEPT !.attrs.handles[ret'.service] = FALSE]
          ELSE /\ ~ret'.result
               /\ connection_manager' = connection_manager
      ]_vars

\* what the code keeps: the claim for the services and for a name the
\* object has no attribute for; for a name it has an attribute for, true
ResetOfAttributeNames ==
    [][ IsReset =>
          /\ ret'.result = HasAttr(ret'.service)
          /\ ret'.service \in Services =>
                connection_manager' =
                    [connection_manager EXCEPT !.attrs.handles[ret'.service] = FALSE]
          /\ ~HasAttr(ret'.service) => connection_manager' = connection_manager
      ]_vars

\* a step in which health_check is called
IsHealthCheck == steps' = steps + 1 /\ ret'.op = "health_check"

\* C29: of two health_check calls made within the health-check interval
\* with no service connected or reset in between, the second reports for
\* every service the status the first reported.
C29_HealthCheckCached ==
    [][ (ret.op = "health_check" /\ IsHealthCheck
           /\ now' - ret.t <= cm_health_check_interval)
          => ret'.status = ret.status ]_vars

\* what the code does: the first of the two reports the state of the
\* handle, the second the status the property recorded when it connected,
\* "unknown" for a service never connected
HealthCheckSecondReportsRecorded ==
    [][ (ret.op = "health_check" /\ IsHealthCheck
           /\ now' - ret.t <= cm_health_check_interval)
          => \A s \in Services :
                /\ ret.status[s] = "not_initialized" => ret'.status[s] = "unknown"
                /\ ret.status[s] = "healthy" => ret'.status[s] = "connected"
      ]_vars


\* ---- claims on the sweep of expired entries in set
\* the keys of the entries _evict_expired finds expired at time t
ExpiredKeys(obj, t) ==
    { e.key : e \in { x \in Range(obj.cache) : t - x.created_at > obj.ttl_seconds } }

\* C30: set first removes every expired entry, whatever its key, and adds
\* their number to expired_removals; the entries it removes beyond those
\* are counted as evictions, are at most one, and there is one only when no
\* entry was expired, the key is new and the cache is full.
C30_SetSweepsExpired ==
    [][ IsCall("set") =>
          LET expired == ExpiredKeys(l1_cache, now')
              evicted == KeysOf(l1_cache.cache) \ (expired \cup KeysOf(l1_cache'.cache))
          IN  /\ l1_cache'.stats.expired_removals =
                    l1_cache.stats.expired_removals + Cardinality(expired)
              /\ \A k \in expired \ { RetKey } :
                    ~HasKey(l1_cache'.cache, k) /\ ~HasKey(l1_cache'.access_times, k)
              /\ RetKey \in expired => Lookup(l1_cache'.cache, RetKey).access_count = 1
              /\ HasKey(l1_cache'.cache, RetKey)
              /\ l1_cache'.stats.evictions = l1_cache.stats.evictions + Cardinality(evicted)
              /\ Cardinality(evicted) <= 1
              /\ evicted # {} =>
                    /\ expired = {}
                    /\ ~HasKey(l1_cache.cache, RetKey)
                    /\ Len(l1_cache.cache) >= l1_cache.max_size
      ]_vars

\* a set of a new key into a full cache whose entry had expired: the entry
\* is counted as expired, nothing is evicted
C30_Witness ==
    /\ ret.op = "set"
    /\ steps = 2
    /\ l1_cache.max_size = 1
    /\ l1_cache.stats.expired_removals = 1
    /\ l1_cache.stats.evictions = 0
    /\ KeysOf(l1_cache.cache) = { L1Key(ret.question, ret.category, ret.section) }

\* a set of a stored key that sweeps the expired entry of another key
C30_SweepsOtherKey ==
    /\ ret.op = "set"
    /\ steps = 3
    /\ l1_cache.max_size = 2
    /\ l1_cache.stats.expired_removals = 1
    /\ l1_cache.stats.evictions = 0
    /\ Len(l1_cache.cache) = 1
    /\ l1_cache.cache[1].access_count = 2

\* a set of a new key into a full cache none of whose entries had expired:
\* one eviction
C30_EvictsWhenNoneExpired ==
    /\ ret.op = "set"
    /\ l1_cache.stats.expired_removals = 0
    /\ l1_cache.stats.evictions = 1

\* ---- claims on a set of a stored key
\* what a set of a stored key leaves of the entry: the arguments of the call,
\* created_at and the last-access time at the call's current_time, and one
\* more than the access_count it found
EntryReplaced ==
    LET old == Lookup(l1_cache.cache, RetKey)
        new == Lookup(l1_cache'.cache, RetKey)
    IN  /\ HasKey(l1_cache'.cache, RetKey)
        /\ new.answer = ret'.answer
        /\ new.is_fallback = ret'.is_fallback
        /\ new.created_at = ret'.t
        /\ new.access_count = old.access_count + 1
        /\ HasKey(l1_cache'.access_times, RetKey)
        /\ Lookup(l1_cache'.access_times, RetKey).t = ret'.t

\* C31 as stated: a set on a key that is present and not expired evicts
\* nothing and leaves the cache size and all other entries unchanged, even
\* at capacity; it replaces answer and is_fallback, restarts the TTL,
\* refreshes the last-access time and adds one to access_count.
C31_UpdateLeavesOthers ==
    [][ (IsCall("set") /\ HasKey(l1_cache.cache, RetKey)
           /\ ~Expired(l1_cache, RetKey, now)) =>
          /\ l1_cache'.stats.evictions = l1_cache.stats.evictions
          /\ Len(l1_cache'.cache) = Len(l1_cache.cache)
          /\ RemoveKeys(l1_cache'.cache, {RetKey}) = RemoveKeys(l1_cache.cache, {RetKey})
          /\ EntryReplaced
      ]_vars

\* C31, amended: a set on a key that is present and not expired when the
\* call sweeps the expired entries (clock reading now') evicts nothing by
\* LRU, even at capacity; the entries of the other keys that are expired are
\* removed and counted as expired_removals, every other entry and its
\* last-access time stay as they are, in their order; the entry of the key
\* stays at its place with answer and is_fallback replaced, created_at and
\* the last-access time at the call's time and access_count one more.
C31_UpdateLeavesLiveOthers ==
    [][ (IsCall("set") /\ HasKey(l1_cache.cache, RetKey)
           /\ ~Expired(l1_cache, RetKey, now')) =>
          LET expired == ExpiredKeys(l1_cache, now')
          IN  /\ l1_cache'.stats.evictions = l1_cache.stats.evictions
              /\ l1_cache'.stats.expired_removals =
                    l1_cache.stats.expired_removals + Cardinality(expired)
              /\ Len(l1_cache'.cache) = Len(l1_cache.cache) - Cardinality(expired)
              /\ RemoveKeys(l1_cache'.cache, {RetKey}) =
                    RemoveKeys(l1_cache.cache, expired \cup {RetKey})
              /\ RemoveKeys(l1_cache'.access_times, {RetKey}) =
                    RemoveKeys(l1_cache.access_times, expired \cup {RetKey})
              /\ [i \in 1..Len(l1_cache'.cache) |-> l1_cache'.cache[i].key] =
                    [i \in 1..Len(RemoveKeys(l1_cache.cache, expired)) |->
                        RemoveKeys(l1_cache.cache, expired)[i].key]
              /\ EntryReplaced
      ]_vars

\* a full cache of two entries whose first entry was set again, with the
\* other answer and flag: nothing evicted, nothing expired, the entry at its
\* place with access_count 2
C31_Witness ==
    /\ ret.op = "set"
    /\ steps = 3
    /\ l1_cache.max_size = 2
    /\ Len(l1_cache.cache) = 2
    /\ l1_cache.stats.evictions = 0
    /\ l1_cache.stats.expired_removals = 0
    /\ l1_cache.cache[1].key = KeyOfCall(ret)
    /\ l1_cache.cache[1].access_count = 2
    /\ l1_cache.cache[1].answer = 2
    /\ l1_cache.cache[1].is_fallback
    /\ l1_cache.cache[2].access_count = 1

\* a set of a stored, live key that found the entry of the other key
\* expired and removed it: the cache is one entry smaller
C31_UpdateSweepsOther ==
    /\ ret.op = "set"
    /\ steps = 3
    /\ l1_cache.max_size = 2
    /\ Len(l1_cache.cache) = 1
    /\ l1_cache.stats.expired_removals = 1
    /\ l1_cache.cache[1].access_count = 2

\* ---- claims on the recovery of the distributed tier
\* the health check of the call that starts in this step reads the clock
\* (now') at least health_check_interval after the previous probe
CheckIsDue == now' - mgr.last_health_check >= health_check_interval
\* the manager has a client and counts the tier as unhealthy
Recoverable == mgr.redis_client /\ ~mgr.redis_healthy

\* C32 as stated: with a client, the tier unhealthy and Redis reachable, the
\* first get or set made at least health_check_interval after the previous
\* probe sends the probe that marks the tier healthy.
C32_FirstCallProbes ==
    [][ /\ \A r \in OrchRequests :
             (MgrGetStart(Reader, r) /\ Recoverable /\ CheckIsDue) =>
                ProbeStarts(Reader)
        /\ \A c \in OrchCalls :
             (MgrSetStart(Writer, c) /\ Recoverable /\ CheckIsDue) =>
                ProbeStarts(Writer) ]_vars

\* what a step does while Redis answers every command
RecoverySteps ==
    \* the first set, and the first get that does not find the key in L1,
    \* made an interval after the previous probe sends a probe
    /\ \A r \in OrchRequests :
         (MgrGetStart(Reader, r) /\ ~L1Fresh(l1_cache, r, now)
            /\ Recoverable /\ CheckIsDue) =>
              /\ ProbeStarts(Reader)
              /\ mgr'.last_health_check = now'
    /\ \A c \in OrchCalls :
         (MgrSetStart(Writer, c) /\ Recoverable /\ CheckIsDue) =>
              /\ ProbeStarts(Writer)
              /\ mgr'.last_health_check = now'
    \* the answer to the probe marks the tier healthy, and the call goes on
    \* to read or write L2
    /\ MgrGetPing(Reader, TRUE) => (mgr'.redis_healthy /\ pc'[Reader] = "get_read")
    /\ MgrSetPing(Writer, TRUE) => (mgr'.redis_healthy /\ pc'[Writer] = "set_write")
    \* from then on the tier stays healthy, every set and every get that
    \* misses L1 turns to Redis, and the write stores the value there
    /\ mgr.redis_healthy => mgr'.redis_healthy
    /\ \A r \in OrchRequests :
         (MgrGetStart(Reader, r) /\ ~L1Fresh(l1_cache, r, now) /\ mgr.redis_healthy) =>
            pc'[Reader] \in { "get_read", "get_ping" }
    /\ \A c \in OrchCalls :
         (MgrSetStart(Writer, c) /\ mgr.redis_healthy) =>
            pc'[Writer] \in { "set_write", "set_ping" }
    /\ MgrSetWrite(Writer, "ok", TRUE) =>
         LET d == redis'.data[L2Key(arg[Writer].question, arg[Writer].category,
                                    arg[Writer].section)]
         IN  /\ d.kind # "none"
             /\ d.answer = arg[Writer].answer
             /\ d.is_fallback = arg[Writer].is_fallback
    \* a get that finds the key in L1 makes no health check
    /\ \A r \in OrchRequests :
         (MgrGetStart(Reader, r) /\ L1Fresh(l1_cache, r, now)) =>
            (mgr'.redis_healthy = mgr.redis_healthy /\ ~ProbeStarts(Reader))
    \* no call creates the client
    /\ mgr'.redis_client = mgr.redis_client

\* C32, amended: with a client, the tier unhealthy and Redis reachable from
\* now on, the first set, or get that misses L1, made at least
\* health_check_interval after the previous probe sends a probe; the probe
\* is answered and marks the tier healthy, and from then on the tier stays
\* healthy and L2 is read and written again.  A get that hits L1 makes no
\* health check.  A tier without a client is never healthy.
C32_RecoveryOnL1Miss ==
    /\ [][RecoverySteps]_vars
    /\ [](~mgr.redis_client => ~mgr.redis_healthy)
    /\ ((\E t \in Tasks : ProbeInFlight(t)) ~> mgr.redis_healthy)

\* the tier was unhealthy after a probe at StartTime; one interval later a
\* get missed L1 and sent the probe that marked the tier healthy, and the set
\* after it has written its value to Redis
C32_Witness ==
    /\ mgr.redis_client
    /\ mgr.redis_healthy
    /\ mgr.last_health_check = StartTime + health_check_interval
    /\ steps = 2
    /\ ret.op = "mgr.set"
    /\ mgr.stats.total_requests = 1
    /\ mgr.stats.misses = 1
    /\ \A t \in Tasks : pc[t] = "idle"
    /\ \E k \in OrchKeys : redis.data[k].kind = "zlib_json" /\ redis.data[k].answer = ret.answer

\* an interval after the failed probe a get found the key in L1 and
\* returned it: no probe was sent and the tier is still unhealthy
C32_L1HitLeavesUnhealthy ==
    /\ mgr.redis_client
    /\ ~mgr.redis_healthy
    /\ mgr.last_health_check = StartTime
    /\ now = StartTime + health_check_interval
    /\ ret.op = "mgr.get"
    /\ ret.found
    /\ \A t \in Tasks : pc[t] = "idle"

\* without a client a set made an interval after the previous check has
\* returned: the tier is unhealthy and Redis holds nothing
C32_NoClientStaysUnhealthy ==
    /\ ~mgr.redis_client
    /\ ~mgr.redis_healthy
    /\ mgr.last_health_check = StartTime + health_check_interval
    /\ ret.op = "mgr.set"
    /\ \A k \in OrchKeys : redis.data[k].kind = "none"

\* the states the recovery starts from, as the manager reaches them from its
\* construction: initialize() without an answer, then a set at StartTime
RecoveryStartReached ==
    /\ ~mgr.redis_healthy
    /\ mgr.redis_client
    /\ mgr.initialized
    /\ mgr.last_health_check = StartTime
    /\ mgr.stats = NewManager(TRUE, LongTtl).stats
    /\ Len(l1_cache.cache) = 1
    /\ l1_cache.cache[1].answer = RecoveryValue.answer
    /\ l1_cache.cache[1].created_at = StartTime
    /\ now = StartTime
    /\ \A k \in OrchKeys : redis.data[k].kind = "none"
    /\ \A t \in Tasks : pc[t] = "idle"

\* ---- claims on a get that overlaps a set
\* C33: once a set(k, v1) has completed and no later set for k is issued, a
\* get(k) returns v1 or absent, whatever gets ran beside the set.  Read on
\* the get that starts when the last call to return was the set (ret), no
\* set is in progress, and that is answered at once.
C33_NoStaleResurrection ==
    [][ \A r \in OrchRequests :
          (/\ MgrGetStart(Reader, r)
           /\ ret.op = "mgr.set"
           /\ KeyOfCall(ret) = KeyOfCall(r)
           /\ pc[Writer] = "idle"
           /\ Returned(Reader, "mgr.get")
           /\ ret'.found) =>
             (ret'.answer = ret.answer /\ ret'.is_fallback = ret.is_fallback)
      ]_vars

\* the set has returned after the get beside it: L1 holds for the key the
\* value that get had read from Redis, Redis holds the value of the set
C33_StaleInL1 ==
    /\ ret.op = "mgr.set"
    /\ ret.ok
    /\ \A t \in Tasks : pc[t] = "idle"
    /\ L1ValueOf(l1_cache, ret, now) = Found(SeedValue.answer, SeedValue.is_fallback)
    /\ \E k \in OrchKeys : redis.data[k].answer = ret.answer /\ redis.data[k].kind # "none"
    /\ ret.answer # SeedValue.answer

\* ---- claims on two sets of one key
\* both tiers hold an entry for the key of the last call
BothTiersHold ==
    /\ HasKey(l1_cache.cache, KeyOfCall(ret))
    /\ redis.data[L2Key(ret.question, ret.category, ret.section)].kind # "none"

\* C34: when two sets of the same key have run while L2 was healthy and
\* every write to Redis succeeded, then once both have completed L1 and
\* Redis hold the same (answer, is_fallback) for the key.
C34_TiersAgree ==
    (/\ steps = 2
     /\ \A t \in Tasks : pc[t] = "idle"
     /\ ret.op = "mgr.set"
     /\ mgr.stats.errors = 0
     /\ BothTiersHold) =>
        LET e == Lookup(l1_cache.cache, KeyOfCall(ret))
            d == redis.data[L2Key(ret.question, ret.category, ret.section)]
        IN  e.answer = d.answer /\ e.is_fallback = d.is_fallback

\* two sets have completed, each wrote to Redis; L1 holds the value of the
\* set that started last, Redis the value of the other
C34_TiersDiffer ==
    /\ steps = 2
    /\ \A t \in Tasks : pc[t] = "idle"
    /\ ret.op = "mgr.set"
    /\ mgr.stats.errors = 0
    /\ BothTiersHold
    /\ Lookup(l1_cache.cache, KeyOfCall(ret)).answer #
         redis.data[L2Key(ret.question, ret.category, ret.section)].answer
    /\ redis.data[L2Key(ret.question, ret.category, ret.section)].answer = ret.answer

\* ---- claims on the age of an answer
Max(a, b) == IF a >= b THEN a ELSE b

\* a get returns in this step: at once, or after an await
GetReturns ==
    /\ Returned(Reader, "mgr.get")
    /\ \/ pc[Reader] # "idle"
       \/ \E r \in OrchRequests : MgrGetStart(Reader, r)

\* C35: an answer returned by get was stored by a set at most
\* max(L1 ttl, L2 ttl) earlier.  Read on the value that was stored in Redis
\* at SeedStoredAt (the calls of this process store other answers); its age
\* is taken at the clock reading at which the get found it (now), in L1 at
\* its start or in Redis at the answer to its read.
C35_StalenessBound ==
    [][ (GetReturns /\ ret'.found /\ ret'.answer = SeedValue.answer) =>
          now - SeedStoredAt <= Max(l1_cache.ttl_seconds, mgr.l2_ttl_seconds)
      ]_vars

\* what the code keeps: the age of a returned value is at most the sum of
\* the two ttls
StalenessWithinSumOfTtls ==
    [][ (GetReturns /\ ret'.found /\ ret'.answer = SeedValue.answer) =>
          now - SeedStoredAt <= l1_cache.ttl_seconds + mgr.l2_ttl_seconds
      ]_vars

\* ---- claims on the order of the map
\* the last-access time recorded for the entry at place i of the map
AccessTimeAt(obj, i) == Lookup(obj.access_times, obj.cache[i].key).t

\* C36: the entries of the ordered map appear from the least recently
\* accessed to the most recently accessed (access: set, or get that hits),
\* so that the entry with the smallest last-access time is the first.
C36_MapInRecencyOrder ==
    \A i, j \in 1..Len(l1_cache.cache) :
        (i < j /\ HasKey(l1_cache.access_times, l1_cache.cache[i].key)
               /\ HasKey(l1_cache.access_times, l1_cache.cache[j].key)) =>
           AccessTimeAt(l1_cache, i) <= AccessTimeAt(l1_cache, j)

\* a set of a stored key has left the entry at the first place of the map
\* with a later last-access time than the entry behind it
C36_ResetEntryStaysInPlace ==
    /\ ret.op = "set"
    /\ Len(l1_cache.cache) = 2
    /\ l1_cache.cache[1].key = KeyOfCall(ret)
    /\ l1_cache.cache[1].access_count = 2
    /\ AccessTimeAt(l1_cache, 1) > AccessTimeAt(l1_cache, 2)

\* what the code keeps: a get that hits moves the entry to the end of the
\* map, a set of a new key appends it, a set of a stored key leaves the
\* entry where it is
MapOrderOfCalls ==
    [][ /\ (IsCall("get") /\ ret'.found) =>
              l1_cache'.cache[Len(l1_cache'.cache)].key = RetKey
        /\ (IsCall("set") /\ ~HasKey(l1_cache.cache, RetKey)) =>
              l1_cache'.cache[Len(l1_cache'.cache)].key = RetKey
        /\ (IsCall("set") /\ HasKey(l1_cache.cache, RetKey)
              /\ ~Expired(l1_cache, RetKey, now')) =>
              IndexOf(l1_cache'.cache, RetKey) =
                 IndexOf(RemoveKeys(l1_cache.cache, ExpiredKeys(l1_cache, now')), RetKey)
      ]_vars

\* ---- claims on the manager's counters
\* the gets the manager has classified: as a hit of L1, a hit of L2 or a miss
Classified(m) == m.stats.l1_hits + m.stats.l2_hits + m.stats.misses
\* a get ends in this step with an exception of the local cache
GetRaises == \E r \in FaultyRequests : MgrGetL1Raises(Reader, r)
\* the gets that ended with an exception: the local cache counted their
\* request and neither a hit nor a miss
RaisedGets(obj) == obj.stats.total_requests - obj.stats.hits - obj.stats.misses
\* this step is a step of a get
GetSteps == GetReturns \/ GetRaises \/ pc[Reader] # "idle" \/ pc'[Reader] # "idle"

\* C37 as stated: whenever no get is in progress, total_requests is the sum
\* of l1_hits, l2_hits and misses.
C37_CountersConsistent ==
    pc[Reader] = "idle" => mgr.stats.total_requests = Classified(mgr)

\* what the steps do to the counters
CounterSteps ==
    \* a get that returns has added one to exactly one of the three
    /\ (GetReturns /\ ~GetRaises) =>
         /\ Classified(mgr') = Classified(mgr) + 1
         /\ \A f \in { "l1_hits", "l2_hits", "misses" } :
              mgr'.stats[f] \in { mgr.stats[f], mgr.stats[f] + 1 }
    \* a get that raises has classified nothing, no other step does
    /\ ~(GetReturns /\ ~GetRaises) => Classified(mgr') = Classified(mgr)
    \* total_requests goes up by one when a get starts, and only then
    /\ mgr'.stats.total_requests = mgr.stats.total_requests +
         (IF GetRaises \/ (\E r \in OrchRequests : MgrGetStart(Reader, r))
          THEN 1 ELSE 0)
    \* an error counted during a get comes with the miss of that get
    /\ (GetSteps /\ pc'[Writer] = pc[Writer] /\ mgr'.stats.errors # mgr.stats.errors) =>
         /\ mgr'.stats.errors = mgr.stats.errors + 1
         /\ mgr'.stats.misses = mgr.stats.misses + 1
         /\ GetReturns
         /\ ~ret'.found

\* C37, amended: whenever no get is in progress, total_requests is the sum
\* of l1_hits, l2_hits and misses plus the number of gets that ended with an
\* exception; each get that returns has added one to exactly one of the
\* three, a get that raises to none; an error counted during a get comes
\* with a miss of the same call.
C37_CountersConsistentUnlessRaised ==
    /\ [](pc[Reader] = "idle" =>
            mgr.stats.total_requests = Classified(mgr) + RaisedGets(l1_cache))
    /\ [](pc[Reader] # "idle" =>
            mgr.stats.total_requests = Classified(mgr) + RaisedGets(l1_cache) + 1)
    /\ [][CounterSteps]_vars

\* two gets have ended: one raised, the other read Redis, failed to decode
\* what it got and returned absent with an error and a miss counted
C37_Witness ==
    /\ steps = 2
    /\ \A t \in Tasks : pc[t] = "idle"
    /\ ret.op = "mgr.get"
    /\ ~ret.raised
    /\ mgr.stats.total_requests = 2
    /\ mgr.stats.errors = 1
    /\ mgr.stats.misses = 1
    /\ mgr.stats.l1_hits = 0
    /\ mgr.stats.l2_hits = 0
    /\ RaisedGets(l1_cache) = 1

\* a get and then a set have returned, the get from Redis: one request, one
\* hit of L2
C37_EveryGetClassified ==
    /\ steps = 2
    /\ \A t \in Tasks : pc[t] = "idle"
    /\ mgr.stats.total_requests = 1
    /\ mgr.stats.l2_hits = 1
    /\ Classified(mgr) = 1

\* the search of run_query raised although the index held a match at or
\* above the floor: run_query has gone on without a passage
SearchFailed ==
    /\ stage # "received"
    /\ AtOrAbove # {}
    /\ request.k > 0
    /\ search_results = <<>>

\* C38: an exception while embedding the query or querying the index is
\* treated as zero results: run_query returns the fixed fallback message
\* with is_fallback true and no passages, the model is not invoked then or
\* later, and the request never ends with an error.
C38_SearchFailureIsFallback ==
    /\ [][ Search("raises") =>
             /\ stage' = "returned"
             /\ original_answer' = FALLBACK_MESSAGE
             /\ is_fallback'
             /\ search_results' = <<>>
             /\ llm_calls' = llm_calls ]_vars
    /\ [](SearchFailed =>
             /\ stage \in { "returned", "done" }
             /\ llm_calls = 0
             /\ original_answer = FALLBACK_MESSAGE
             /\ is_fallback)

\* a request whose search raised over an index with a match above the floor
\* was answered with the fallback message, the model never called
C38_Witness ==
    /\ SearchFailed
    /\ Done
    /\ llm_calls = 0
    /\ displayed_answer = FALLBACK_MESSAGE

\* the step in which get_distributed_cache hands the manager to task t
ReceivesInstance(t) ==
    /\ pc'[t] = "idle"
    /\ \/ \E outcome \in { "connecting", "no_library", "no_pool" } :
            GetDistributedCache(t, outcome)
       \/ \E pong \in BOOLEAN : GetDistributedCachePing(t, pong)

\* C39: all callers of get_distributed_cache, those of the first call's
\* time included, receive the same DistributedCacheManager, initialize() is
\* run exactly once on it, and no caller receives it before its initialize()
\* has completed.
C39_OneInitializedInstance ==
    /\ [](_distributed_cache.constructed <= 1)
    /\ [](_distributed_cache.created =>
            /\ _distributed_cache.constructed = 1
            /\ _distributed_cache.initialize_calls = 1)
    /\ [][ \A t \in Tasks : ReceivesInstance(t) =>
             /\ _distributed_cache'.created
             /\ mgr'.initialized ]_vars

\* a task holds the manager while the task that made it still awaits the
\* ping of initialize()
C39_ReceivedUninitialized ==
    /\ ret.op = "get_distributed_cache"
    /\ ~mgr.initialized
    /\ \E t \in Tasks : pc[t] = "init_ping"

\* what does hold: one manager is made, initialize() is called once, by the
\* task that made it, and that task receives it initialized
OneInstanceInitializedOnce ==
    /\ [](_distributed_cache.constructed <= 1)
    /\ [](_distributed_cache.created =>
            /\ _distributed_cache.constructed = 1
            /\ _distributed_cache.initialize_calls = 1)
    /\ [][ \A t \in Tasks :
             /\ ReceivesInstance(t) => _distributed_cache'.created
             /\ (ReceivesInstance(t) /\ ~_distributed_cache.created) => mgr'.initialized
             /\ (\E pong \in BOOLEAN : GetDistributedCachePing(t, pong)) =>
                  mgr'.initialized ]_vars

\* C40: the local cache's recency index and its entry map have the same key
\* set in every reachable state, each key once: a key has a last-access time
\* if and only if it has a stored entry.
C40_IndexMatchesMap ==
    /\ KeysOf(l1_cache.access_times) = KeysOf(l1_cache.cache)
    /\ Len(l1_cache.access_times) = Len(l1_cache.cache)
    /\ Cardinality(KeysOf(l1_cache.cache)) = Len(l1_cache.cache)

\* entries have been removed as expired and by LRU eviction, and the cache
\* holds an entry set after them
C40_Witness ==
    /\ l1_cache.stats.expired_removals > 0
    /\ l1_cache.stats.evictions > 0
    /\ l1_cache.cache # <<>>
    /\ ret.op = "set"

\* the cache was emptied by clear() after it had held an entry
C40_Cleared ==
    /\ ret.op = "clear"
    /\ l1_cache.stats.total_requests > 0
    /\ l1_cache.cache = <<>>
    /\ l1_cache.access_times = <<>>
====
